---- MODULE Spec2Model ----
(***************************************************************************)
(* Aether Conductor: the closed authorization loop.                        *)
(*                                                                         *)
(* TerminalInterceptor (interceptor.ts) buffers the child's output and     *)
(* emits flushes; Conductor (conductor.ts) analyses each flush, applies    *)
(* the auto rules, tracks pending requests, and reacts to authorizations   *)
(* delivered by the forwarder (forwarder.ts): execute, inject, record.     *)
(*                                                                         *)
(* Every async handler is cut at its awaits: the part before the first     *)
(* await runs inside the action that calls the handler, every continuation *)
(* is an action of its own.                                                *)
(***************************************************************************)
EXTENDS Integers, Sequences, FiniteSets, TLC

(***************************************************************************)
(* Bounds                                                                  *)
(***************************************************************************)
\* chunks the child writes to stdout/stderr in one run (each flush needs a
\* non-empty buffer, so this also bounds flushes and requests)
MaxChunks == 2
\* conductor.request calls the gateway accepts
MaxRequests == 2
\* conductor.resolve calls the gateway accepts
MaxResolved == 2
\* chunks the operator types that reach the child's stdin
MaxHostChunks == 1
\* length of the terminal outputs stripAnsi is explored on
MaxStrLen == 6
\* ticks the clock of the timed specification counts
MaxTime == 4
MaxListeners == 2

(***************************************************************************)
(* Strings are sequences of one-character strings.                         *)
(***************************************************************************)
\* the absent value of an optional string field (url, instructions)
None == <<"<undefined>">>

Whitespace == {" ", "\t"}

\* String.prototype.toLowerCase, on the letters the model uses
toLowerCaseChar(c) ==
  CASE c = "A" -> "a" [] c = "B" -> "b" [] c = "E" -> "e" [] c = "N" -> "n"
    [] c = "O" -> "o" [] c = "S" -> "s" [] c = "Y" -> "y" [] c = "X" -> "x"
    [] OTHER -> c

toLowerCase(s) == [i \in 1..Len(s) |-> toLowerCaseChar(s[i])]

RECURSIVE trimStart(_)
trimStart(s) ==
  IF s # <<>> /\ Head(s) \in Whitespace THEN trimStart(Tail(s)) ELSE s

RECURSIVE trimEnd(_)
trimEnd(s) ==
  IF s # <<>> /\ s[Len(s)] \in Whitespace
  THEN trimEnd(SubSeq(s, 1, Len(s) - 1)) ELSE s

\* String.prototype.trim
trim(s) == trimEnd(trimStart(s))

\* String.prototype.startsWith
startsWith(s, p) == Len(s) >= Len(p) /\ SubSeq(s, 1, Len(p)) = p

\* String.prototype.includes
includes(s, p) ==
  \E i \in 1..(Len(s) + 1) :
    i + Len(p) - 1 <= Len(s) /\ SubSeq(s, i, i + Len(p) - 1) = p

(***************************************************************************)
(* matchGlob: the pattern is rewritten into a regular expression, which is *)
(* then tested, anchored and case-insensitive, against the value.          *)
(***************************************************************************)
\* the characters the first replace() escapes: they stay literals
RegexEscaped == {".", "+", "^", "$", "{", "}", "(", ")", "|", "[", "]", "\\"}

\* one regex token per pattern character
globToken(c) ==
  IF c \in RegexEscaped THEN [t |-> "lit", c |-> c]
  ELSE IF c = "*" THEN [t |-> "star", c |-> ""]
  ELSE IF c = "?" THEN [t |-> "any", c |-> ""]
  ELSE [t |-> "lit", c |-> c]

globRegex(pattern) == [i \in 1..Len(pattern) |-> globToken(pattern[i])]

\* new RegExp("^...$", "i").test(value)
RECURSIVE regexTest(_, _)
regexTest(re, value) ==
  IF re = <<>> THEN value = <<>>
  ELSE IF Head(re).t = "star"
       THEN \E k \in 0..Len(value) :
              regexTest(Tail(re), SubSeq(value, k + 1, Len(value)))
  ELSE IF value = <<>> THEN FALSE
  ELSE IF Head(re).t = "any" THEN regexTest(Tail(re), Tail(value))
  ELSE /\ toLowerCaseChar(Head(re).c) = toLowerCaseChar(Head(value))
       /\ regexTest(Tail(re), Tail(value))

matchGlob(pattern, value) == regexTest(globRegex(pattern), value)

\* the for-loops of checkAutoRules: TRUE iff some pattern of the list matches
RECURSIVE anyPatternMatches(_, _)
anyPatternMatches(patterns, url) ==
  IF patterns = <<>> THEN FALSE
  ELSE IF matchGlob(Head(patterns), url) THEN TRUE
  ELSE anyPatternMatches(Tail(patterns), url)

\* checkAutoRules with the two loops swapped
checkAutoRules_approveFirst(url, denyPatterns, approvePatterns) ==
  IF url = None \/ url = <<>> THEN "null"
  ELSE IF anyPatternMatches(approvePatterns, url) THEN "approve"
  ELSE IF anyPatternMatches(denyPatterns, url) THEN "deny"
  ELSE "null"

\* Conductor.checkAutoRules: "approve", "deny" or "null"
checkAutoRules(url, denyPatterns, approvePatterns) ==
  IF url = None \/ url = <<>> THEN "null"
  ELSE IF anyPatternMatches(denyPatterns, url) THEN "deny"
  ELSE IF anyPatternMatches(approvePatterns, url) THEN "approve"
  ELSE "null"

(***************************************************************************)
(* Inputs                                                                  *)
(***************************************************************************)
\* URLs the analyzer may extract
Urls == { <<"a", ".", "b">>, <<"A", "x", "b">> }

\* values of auth.autoDenyPatterns / auth.autoApprovePatterns
AutoPatternLists ==
  { <<>>, << <<"a", ".", "b">> >>, << <<"z">>, <<"a", "*">> >> }

\* analyzer confidence, in tenths
Confidences == {0, 5, 7, 8, 10}

\* analyzer.confidenceThreshold ?? 0.7, in tenths
DefaultThreshold == 7

\* AnalyzerResult: detected, confidence, request? (only the url of the
\* request matters to the orchestrator)
AnalyzerResults ==
  [detected : BOOLEAN, confidence : Confidences, hasRequest : BOOLEAN,
   url : Urls \cup {None}]

(***************************************************************************)
(* State                                                                   *)
(***************************************************************************)
VARIABLES
  config,           \* ConductorConfig.auth and the forwarder's deps
  \* TerminalInterceptor
  childProc,        \* the spawned process: "unspawned", "alive", "exited"
  child,            \* this.child # null
  buffer,           \* this.buffer, as the sequence of buffered chunks
  flushTimer,       \* this.flushTimer # null
  chunksSent,       \* chunks the child has written so far
  flushed,          \* payloads of the 'flush' events emitted so far
  \* Conductor
  active,           \* state.active
  pending,          \* state.pending (request ids)
  history,          \* state.history
  requests,         \* requests built so far; requests[id] is request id
  auditStream,      \* this.auditStream # null
  auditLog,         \* lines written to the audit stream, per request id
  events,           \* events passed to emit(), per request id (0: none)
  listeners,        \* this.listeners, in insertion order: how each behaves
  heard,            \* events each listener was called with, per request id
  escaped,          \* an exception of a listener has left emit()
  steps,            \* what was done for each request, in the order done
  lastReply,        \* the last message the operator sent on the channel
  forwarderCleanup, \* this.forwarderCleanup # null
  analyzing,        \* handleTerminalOutput calls awaiting analyzer.analyze
  executing,        \* executeAndInject calls awaiting executor.execute
  notifying,        \* executeAndInject calls awaiting forwarder.notifyResult
  execCalls,        \* calls of executor.execute, per request id
  discarded,        \* handleAuthorization has dropped an authorization
  stdin,            \* writes made to the child's stdin
  \* createConductorForwarder
  fwdPending,       \* the pending Map (ids in insertion order, timers armed)
  callbacks,        \* the Conductor's callback is in the callbacks Set
  inboundCleanup,   \* the inbound handler is subscribed
  fwdSending,       \* requestAuthorization calls awaiting Promise.allSettled
  fwdCalls,         \* request ids passed to requestAuthorization
  fwdEmitted,       \* resolvedBy of the authorizations passed to the
                    \* subscribed callbacks, per request id
  fwdDelivered,     \* ids whose prompt a sendMessage call has put before
                    \* the operator
  \* gateway RPC handlers (server-methods/conductor.ts)
  conductorPending, \* ids of the entries of the conductorPending Map
  conductorHistory, \* the conductorHistory array
  gwCreated,        \* ids handed out by crypto.randomUUID() so far
  gwStage,          \* position of each conductor.request handler
  gwResult,         \* value decisionPromise was resolved with, per id
  gwTimer,          \* ids whose timeout timer is armed
  gwResponded,      \* results conductor.request responded with, per id
  gwResolved,       \* 'conductor.resolved' broadcasts, per id
  gwResponse,       \* the last response of any other call
  \* createBrowserExecutor (src/conductor/conductor.ts)
  exCapture,        \* captureScreenshots
  exPlane,          \* whether the browser plane answers the calls awaited
  exCall,           \* the request and the authorization's instructions execute
                    \* was called with, <<>> before the call
  exStage,          \* position of the execute call
  exActions,        \* the actions resolveActions returned
  exPos,            \* index in exActions of the action being executed
  exResults,        \* results
  exDispatched,     \* actions passed to executeAction so far
  \* createAnalyzer (analyzer.ts)
  anConfig,         \* the ConductorAnalyzerConfig createAnalyzer was given
  anStage,          \* position of createAnalyzer and of the analyze call
  anAnalyzer,       \* the analyzer createAnalyzer returned
  anInput,          \* terminalOutput of the analyze call
  anCleaned,        \* cleaned, the stripped terminalOutput
  anFetched,        \* whether the analyze call called fetch
  anResult,         \* what the analyze call resolved with
  \* time
  now,              \* Date.now(), in ticks; Untimed where time is left out
  fwdDeadline,      \* when the forwarder's timer of a request is due, per id
  timeoutAt         \* resolvedAtMs of a request's timeout authorization

ivars == <<childProc, child, buffer, flushTimer, chunksSent, flushed>>
cvars == <<active, pending, history, requests, auditStream, auditLog, events,
           heard, escaped, steps,
           forwarderCleanup, analyzing, executing, notifying, execCalls,
           discarded, stdin>>
fvars == <<fwdPending, callbacks, inboundCleanup, fwdSending, fwdCalls,
           fwdEmitted, fwdDelivered>>
gvars == <<conductorPending, conductorHistory, gwCreated, gwStage, gwResult,
           gwTimer, gwResponded, gwResolved, gwResponse>>
xvars == <<exCapture, exPlane, exCall, exStage, exActions, exPos, exResults, exDispatched>>
avars == <<anConfig, anStage, anAnalyzer, anInput, anCleaned, anFetched,
           anResult>>
tvars == <<now, fwdDeadline, timeoutAt>>
vars == <<config, listeners, lastReply, ivars, cvars, fvars, gvars, xvars, avars, tvars>>

\* request ids; 0 stands for "no request"
Ids == 1..MaxChunks

\* the value of the clock in the specifications that leave time out: there
\* a timer may fire at any moment after it was armed
Untimed == -1

\* auth.timeoutMs, in ticks
TimeoutTicks == 2

Decisions == {"approve", "deny", "approve-with-instructions"}

\* the configurations explored: the auto-rule lists, whether auth.targets
\* is non-empty, and whether deps.onInboundMessage is supplied
\* (an inbound handler without targets never sees a pending entry)
Configs ==
  { [autoDenyPatterns |-> << <<"z">>, <<"a", ".", "b">> >>,
     autoApprovePatterns |-> << <<"a", "*">> >>,
     targets |-> w[1], onInboundMessage |-> w[2]] :
      w \in { <<0, FALSE>>, <<1, FALSE>>, <<1, TRUE>> } }

(***************************************************************************)
(* Gateway RPC handlers: conductor.request, conductor.resolve,             *)
(* conductor.status and conductor.history over the module-level            *)
(* conductorPending Map and conductorHistory array.  A conductor.request   *)
(* handler is cut at `await decisionPromise`; the other handlers have no   *)
(* await and run in one step.                                              *)
(***************************************************************************)
\* ids of gateway requests: crypto.randomUUID() never returns an id of the
\* orchestrator, so they are numbered after Ids
GwIds == (MaxChunks + 1)..(MaxChunks + MaxRequests)

\* `!v` for an optional string
falsy(v) == v = None \/ v = <<>>

\* the value entry.resolve passes to resolveDecision
ResultWith(decision, instructions) ==
  [decision |-> decision, instructions |-> instructions]

\* the value passed to resolveDecision without instructions
Result(decision) == ResultWith(decision, None)

NoResult == Result("")

\* a call of respond(ok, payload, error) by a handler other than a
\* conductor.request that got its decision
Response(method, ok, error, id, limit, pendingList, entries, total) ==
  [method |-> method, ok |-> ok, error |-> error, id |-> id,
   limit |-> limit, pending |-> pendingList, entries |-> entries,
   total |-> total]

NoResponse == Response("", TRUE, "", 0, 0, {}, <<>>, 0)

\* respond(false, undefined, errorShape(INVALID_REQUEST, error))
ErrorResponse(method, error) ==
  Response(method, FALSE, error, 0, 0, {}, <<>>, 0)

\* the state of the gateway module when it is loaded
InitGateway ==
  /\ conductorPending = {} /\ conductorHistory = <<>> /\ gwCreated = 0
  /\ gwStage = [i \in GwIds |-> "idle"]
  /\ gwResult = [i \in GwIds |-> NoResult]
  /\ gwTimer = {}
  /\ gwResponded = [i \in GwIds |-> <<>>]
  /\ gwResolved = [i \in GwIds |-> <<>>]
  /\ gwResponse = NoResponse

(***************************************************************************)
(* createBrowserExecutor: one call of execute, cut at each                 *)
(* `await executeAction(...)`                                              *)
(***************************************************************************)
Action(type, url) == [type |-> type, url |-> url]

Screenshot == Action("screenshot", None)

ExtractText == Action("extract-text", None)

TheUrl == <<"u">>

Str_only == <<"o", "n", "l", "y">>

Str_just == <<"j", "u", "s", "t">>

Str_screenshot == <<"s", "c", "r", "e", "e", "n", "s", "h", "o", "t">>

Str_fetch == <<"f", "e", "t", "c", "h">>

\* actions.find((a) => a.type === "navigate"), <<>> when there is none
RECURSIVE findNavigate(_)
findNavigate(actions) ==
  IF actions = <<>> THEN <<>>
  ELSE IF Head(actions).type = "navigate" THEN <<Head(actions)>>
  ELSE findNavigate(Tail(actions))

\* resolveActions(request, authorization)
resolveActions(request, authorization) ==
  LET actions == IF request.suggestedActions = <<>> /\ ~falsy(request.url)
                 THEN <<Action("navigate", request.url), ExtractText>>
                 ELSE request.suggestedActions
      instructions == toLowerCase(authorization.instructions)
  IN IF falsy(authorization.instructions) THEN actions
     ELSE IF \/ includes(instructions, Str_only \o <<" ">> \o Str_screenshot)
             \/ includes(instructions, Str_just \o <<" ">> \o Str_screenshot)
          THEN findNavigate(actions) \o <<Screenshot>>
     ELSE IF \/ includes(instructions, Str_only \o <<" ">> \o Str_fetch)
             \/ includes(instructions, Str_just \o <<" ">> \o Str_fetch)
          THEN findNavigate(actions) \o <<ExtractText>>
     ELSE actions

\* request.suggestedActions of the requests explored
SuggestedLists ==
  { <<>>,
    <<Action("navigate", TheUrl), Action("click", None)>>,
    <<Action("click", None), Action("navigate", TheUrl), ExtractText>>,
    <<Action("navigate", TheUrl), Screenshot>>,
    <<ExtractText>> }

ExecRequests == [suggestedActions : SuggestedLists, url : {None, TheUrl}]

ExecInstructions ==
  { None, <<"g", "o">>,
    <<"O", "n", "l", "y">> \o <<" ">> \o Str_screenshot,
    <<"p", "l", "s">> \o <<" ">> \o Str_just \o <<" ">> \o Str_fetch \o <<" ">> \o <<"x">> }

\* how an awaited executeAction settles: a successful result, a failed
\* result, or a rejection (the lazy import fails)
ActionOutcomes == {"success", "failed", "threw"}

\* a BrowserActionResult
ActionResult(action, outcome) ==
  [action |-> action, success |-> outcome = "success",
   error |-> IF outcome = "success" THEN "" ELSE outcome]

\* the browser plane behind the awaited browserStatus, browserStart and
\* action calls: it settles each call, or never answers
BrowserPlanes == {"up", "silent"}

\* the state before execute is called
InitExecutor ==
  /\ exCall = <<>> /\ exStage = "idle" /\ exActions = <<>> /\ exPos = 0
  /\ exResults = <<>> /\ exDispatched = <<>>

(***************************************************************************)
(* The analyzer (analyzer.ts): pure helpers                                *)
(***************************************************************************)
\* the characters \x1B and \x07
ESC == "<ESC>"

BEL == "<BEL>"

Digits == {"0", "1", "2", "3", "4", "5", "6", "7", "8", "9"}

Letters ==
  {"a", "b", "c", "d", "e", "f", "g", "h", "i", "j", "k", "l", "m", "n", "o",
   "p", "q", "r", "s", "t", "u", "v", "w", "x", "y", "z",
   "A", "B", "C", "D", "E", "F", "G", "H", "I", "J", "K", "L", "M", "N", "O",
   "P", "Q", "R", "S", "T", "U", "V", "W", "X", "Y", "Z"}

\* the characters `.` does not match
LineTerminators == {"\n", "\r"}

\* length of the longest prefix of s made of [0-9;]
RECURSIVE paramsLen(_)
paramsLen(s) ==
  IF s # <<>> /\ Head(s) \in Digits \cup {";"} THEN 1 + paramsLen(Tail(s))
  ELSE 0

\* length of the match of /\x1B\[[0-9;]*[a-zA-Z]/ at the head of s, 0 if none
csiLen(s) ==
  IF Len(s) >= 3 /\ s[1] = ESC /\ s[2] = "["
  THEN LET n == paramsLen(SubSeq(s, 3, Len(s)))
       IN IF 3 + n <= Len(s) /\ s[3 + n] \in Letters THEN 3 + n ELSE 0
  ELSE 0

\* number of characters of s before the first \x07, provided `.` matches
\* all of them; -1 if there is no such \x07
RECURSIVE untilBel(_)
untilBel(s) ==
  IF s = <<>> THEN -1
  ELSE IF Head(s) = BEL THEN 0
  ELSE IF Head(s) \in LineTerminators THEN -1
  ELSE LET n == untilBel(Tail(s)) IN IF n = -1 THEN -1 ELSE n + 1

\* length of the match of /\x1B\].*?\x07/ at the head of s, 0 if none
oscLen(s) ==
  IF Len(s) >= 3 /\ s[1] = ESC /\ s[2] = "]"
  THEN LET n == untilBel(SubSeq(s, 3, Len(s)))
       IN IF n = -1 THEN 0 ELSE 3 + n
  ELSE 0

\* text.replace(/\x1B\[[0-9;]*[a-zA-Z]/g, "")
RECURSIVE removeCsi(_)
removeCsi(s) ==
  IF s = <<>> THEN <<>>
  ELSE IF csiLen(s) > 0 THEN removeCsi(SubSeq(s, csiLen(s) + 1, Len(s)))
  ELSE <<Head(s)>> \o removeCsi(Tail(s))

\* text.replace(/\x1B\].*?\x07/g, "")
RECURSIVE removeOsc(_)
removeOsc(s) ==
  IF s = <<>> THEN <<>>
  ELSE IF oscLen(s) > 0 THEN removeOsc(SubSeq(s, oscLen(s) + 1, Len(s)))
  ELSE <<Head(s)>> \o removeOsc(Tail(s))

\* stripAnsi
stripAnsi(text) == removeOsc(removeCsi(text))

Str_http == <<"h", "t", "t", "p", ":", "/", "/">>

Str_https == <<"h", "t", "t", "p", "s", ":", "/", "/">>

\* the backquote character
BACKQUOTE == "<backquote>"

\* the class [^\s"'`)\]>]
UrlChar(c) == c \notin Whitespace \cup LineTerminators
                           \cup {"\"", "'", BACKQUOTE, ")", "]", ">"}

\* length of the longest prefix of s made of UrlChars
RECURSIVE urlRun(_)
urlRun(s) == IF s # <<>> /\ UrlChar(Head(s)) THEN 1 + urlRun(Tail(s)) ELSE 0

\* length of the match of /https?:\/\/[^\s"'`)\]>]+/ at the head of s, 0 if
\* none
urlLen(s) ==
  LET scheme == IF startsWith(s, Str_https) THEN Len(Str_https)
                ELSE IF startsWith(s, Str_http) THEN Len(Str_http)
                ELSE 0
      run == urlRun(SubSeq(s, scheme + 1, Len(s)))
  IN IF scheme > 0 /\ run > 0 THEN scheme + run ELSE 0

\* extractUrl: the leftmost match, None for null
RECURSIVE extractUrl(_)
extractUrl(text) ==
  IF text = <<>> THEN None
  ELSE IF urlLen(text) > 0 THEN SubSeq(text, 1, urlLen(text))
  ELSE extractUrl(Tail(text))

ExternalAccessKinds ==
  {"url-visit", "credential-fetch", "api-check", "service-action",
   "file-download", "verification", "unknown"}

\* the absent suggestedActions
NoActions == <<"<undefined>">>

\* buildSuggestedActions that returns the kind's actions without the
\* navigate
buildSuggestedActions_noNavigate(kind, url) ==
  IF url = None \/ url = <<>> THEN NoActions
  ELSE CASE kind \in {"url-visit", "verification"} -> <<Screenshot, ExtractText>>
         [] kind \in {"credential-fetch", "api-check"} -> <<ExtractText>>
         [] kind = "file-download" -> <<>>
         [] OTHER -> <<Screenshot>>

\* buildSuggestedActions
buildSuggestedActions(kind, url) ==
  IF url = None \/ url = <<>> THEN NoActions
  ELSE <<Action("navigate", url)>> \o
       CASE kind \in {"url-visit", "verification"} -> <<Screenshot, ExtractText>>
         [] kind = "credential-fetch" -> <<ExtractText>>
         [] kind = "api-check" -> <<ExtractText>>
         [] kind = "file-download" -> <<>>
         [] OTHER -> <<Screenshot>>


(***************************************************************************)
(* The analyzer: configurations, inputs and results                        *)
(***************************************************************************)
\* config.provider; "<undefined>" when absent
Providers == {"<undefined>", "gemini", "openai", "regex", "local"}

\* a ConductorAnalyzerConfig: apiKey tells whether config.apiKey or the
\* provider's environment variable gives a non-empty key, patterns is
\* config.patterns, each pattern given by whether new RegExp accepts it
AnalyzerConfigs ==
  [provider : Providers, apiKey : BOOLEAN,
   patterns : {<<>>, <<TRUE>>, <<FALSE>>}]

\* the kinds of DEFAULT_PATTERNS, in order
DefaultPatternKinds ==
  <<"url-visit", "url-visit", "credential-fetch", "credential-fetch",
    "api-check", "service-action", "service-action", "file-download",
    "verification">>

\* the kinds of allPatterns: the default patterns, then the custom ones
allPatternKinds(cfg) ==
  DefaultPatternKinds \o [i \in 1..Len(cfg.patterns) |-> "unknown"]

\* the most patterns an analyzer of AnalyzerConfigs has
NumPatterns == Len(DefaultPatternKinds) + 1

\* analyze skips cleaned text shorter than this
MinVisible == 20

\* "go to http://a.b/c now ok": 25 characters
Text_long ==
  <<"g", "o", " ", "t", "o", " ", "h", "t", "t", "p", ":", "/", "/", "a",
    ".", "b", "/", "c", " ", "n", "o", "w", " ", "o", "k">>

\* "visit http://a.b": 16 characters
Text_short ==
  <<"v", "i", "s", "i", "t", " ", "h", "t", "t", "p", ":", "/", "/", "a",
    ".", "b">>

\* "\x1B[32mopen http://a.b/x\x1B[0m": 26 characters, 17 of them visible
Text_ansi ==
  <<ESC, "[", "3", "2", "m", "o", "p", "e", "n", " ", "h", "t", "t", "p",
    ":", "/", "/", "a", ".", "b", "/", "x", ESC, "[", "0", "m">>

\* "   view http://a.b     ": 23 characters, 15 when trimmed
Text_padded ==
  <<" ", " ", " ", "v", "i", "e", "w", " ", "h", "t", "t", "p", ":", "/",
    "/", "a", ".", "b", " ", " ", " ", " ", " ">>

\* "Compiling TypeScript... ok": 26 characters, no URL
Text_plain ==
  <<"C", "o", "m", "p", "i", "l", "i", "n", "g", " ", "T", "y", "p", "e",
    "S", "c", "r", "i", "p", "t", ".", ".", ".", " ", "o", "k">>

\* "check http://a.b/xyz": 20 characters
Text_20 ==
  <<"c", "h", "e", "c", "k", " ", "h", "t", "t", "p", ":", "/", "/", "a",
    ".", "b", "/", "x", "y", "z">>

\* "check http://a.b/xy": 19 characters
Text_19 ==
  <<"c", "h", "e", "c", "k", " ", "h", "t", "t", "p", ":", "/", "/", "a",
    ".", "b", "/", "x", "y">>

\* "http://a.b": a captured URL
Group_url ==
  <<"h", "t", "t", "p", ":", "/", "/", "a", ".", "b">>

\* "http://)": a capture of https?:\/\/[^\s"'`]+ in which extractUrl finds no URL
Group_badUrl ==
  <<"h", "t", "t", "p", ":", "/", "/", ")">>

\* "Vercel": a captured word
Group_word ==
  <<"V", "e", "r", "c", "e", "l">>

AnalyzerTexts ==
  {Text_long, Text_short, Text_ansi, Text_padded, Text_plain, Text_20,
   Text_19}

\* pattern.exec(cleaned) returned null
NoMatch == <<"<null>">>

\* what match[1] can be for each pattern: None when the pattern has no
\* group (the seventh default pattern, a custom pattern)
GroupsOf(p) ==
  CASE p \in {1, 2, 5, 8, 9} -> {Group_url, Group_badUrl}
    [] p \in {3, 4} -> {Group_word, Group_url}
    [] p = 6 -> {Group_word}
    [] p = 7 -> {None}
    [] OTHER -> {None, Group_url, Group_word}

\* no pattern's exec matches
NoMatches == [p \in 1..NumPatterns |-> NoMatch]

\* the results of pattern.exec(cleaned), one per pattern: no pattern
\* matches, one does, or two do
MatchTables ==
  {NoMatches}
  \cup UNION { { [NoMatches EXCEPT ![p] = g] : g \in GroupsOf(p) } :
               p \in 1..NumPatterns }
  \cup UNION { UNION { { [NoMatches EXCEPT ![p] = g, ![q] = h] :
                         g \in GroupsOf(p), h \in GroupsOf(q) } :
                       q \in (p + 1)..NumPatterns } :
               p \in 1..NumPatterns }

\* an input of analyze: the terminal output and what the patterns' exec
\* gives on its cleaned text
AnalyzerInputs == [text : AnalyzerTexts, matches : MatchTables]

\* the absent request of an AnalyzerResult
NoRequest ==
  [kind |-> "<undefined>", rawOutput |-> None, url |-> None,
   suggestedActions |-> NoActions]

\* { detected: false, confidence }
NotDetected(confidence) ==
  [detected |-> FALSE, confidence |-> confidence, request |-> NoRequest]

\* the result before analyze has returned one
NoAnalysis == [detected |-> FALSE, confidence |-> -1, request |-> NoRequest]

\* the loop over allPatterns returning at the last match, not the first
firstPattern_last(kinds, matches, p) ==
  LET hits == { q \in p..Len(kinds) : matches[q] # NoMatch }
  IN IF hits = {} THEN 0 ELSE CHOOSE q \in hits : \A r \in hits : r <= q

\* index of the first pattern from p on whose exec matched, 0 if none
RECURSIVE firstPattern(_, _, _)
firstPattern(kinds, matches, p) ==
  IF p > Len(kinds) THEN 0
  ELSE IF matches[p] # NoMatch THEN p
  ELSE firstPattern(kinds, matches, p + 1)

\* createRegexAnalyzer(config).analyze(terminalOutput); confidence in tenths
regexAnalyze(cfg, input) ==
  LET cleaned == stripAnsi(input.text)
      kinds == allPatternKinds(cfg)
      p == firstPattern(kinds, input.matches, 1)
  IN IF p = 0 THEN NotDetected(0)
     ELSE LET kind == kinds[p]
              group == input.matches[p]
              url == extractUrl(IF group = None THEN cleaned ELSE group)
          IN [detected |-> TRUE, confidence |-> 8,
              request |-> [kind |-> kind, rawOutput |-> input.text,
                           url |-> url,
                           suggestedActions |->
                             buildSuggestedActions(kind, url)]]

\* createRegexAnalyzer throws: new RegExp rejects a custom pattern
regexThrows(cfg) == \E i \in 1..Len(cfg.patterns) : ~cfg.patterns[i]

\* how the awaited fetch and the reading of its response end: fetch
\* rejects, the status is not 2xx, response.json() rejects, the reply has
\* no text, JSON.parse throws, or the text parses; an absent field of the
\* parsed object is "<undefined>" (-1 for the confidence)
RemoteReplies ==
  [status : {"threw", "non2xx", "jsonRejects", "noText", "badJson"},
   detected : {FALSE}, confidence : {-1}, kind : {"<undefined>"},
   url : {None}, suggestedActions : {NoActions}]
  \cup
  [status : {"parsed"}, detected : BOOLEAN, confidence : {-1, 9},
   kind : {"<undefined>", "api-check"}, url : {None, Group_url},
   suggestedActions : {NoActions}]

\* the result analyze builds from a parsed reply
parsedResult(reply, input) ==
  IF ~reply.detected
  THEN NotDetected(IF reply.confidence = -1 THEN 0 ELSE reply.confidence)
  ELSE [detected |-> TRUE,
        confidence |-> IF reply.confidence = -1 THEN 5 ELSE reply.confidence,
        request |-> [kind |-> IF reply.kind = "<undefined>" THEN "unknown"
                              ELSE reply.kind,
                     rawOutput |-> input.text, url |-> reply.url,
                     suggestedActions |-> reply.suggestedActions]]

\* the state before createAnalyzer is called
InitAnalyzer ==
  /\ anStage = "config" /\ anConfig = [provider |-> "<undefined>",
                                       apiKey |-> FALSE, patterns |-> <<>>]
  /\ anAnalyzer = "none" /\ anInput = [text |-> <<>>, matches |-> <<>>]
  /\ anCleaned = <<>> /\ anFetched = FALSE /\ anResult = NoAnalysis

(***************************************************************************)
(* The analyzer: createAnalyzer and analyze                                *)
(***************************************************************************)
\* createAnalyzer(config): the provider's factory; without a key the remote
\* factories return createRegexAnalyzer(config), which throws on a custom
\* pattern new RegExp rejects
CreateAnalyzer(cfg) ==
  /\ anStage = "config"
  /\ anConfig' = cfg
  /\ LET provider == IF cfg.provider = "<undefined>" THEN "gemini"
                     ELSE cfg.provider
         remote == provider \in {"gemini", "openai"} /\ cfg.apiKey
     IN IF remote
        THEN anAnalyzer' = provider /\ anStage' = "ready"
        ELSE IF regexThrows(cfg)
             THEN anAnalyzer' = "none" /\ anStage' = "threw"
             ELSE anAnalyzer' = "regex" /\ anStage' = "ready"
  /\ UNCHANGED <<anInput, anCleaned, anFetched, anResult>>
  /\ UNCHANGED <<config, listeners, lastReply, ivars, cvars, fvars, gvars, xvars, tvars>>

\* the fallback of a remote analyzer from inside its try block: a throw of
\* createRegexAnalyzer lands in the catch, which calls it again
fallback(cfg, input) ==
  IF regexThrows(cfg)
  THEN anStage' = "rejected" /\ anResult' = NoAnalysis
  ELSE anStage' = "done" /\ anResult' = regexAnalyze(cfg, input)

\* analyze(terminalOutput) up to its return or to the awaited fetch
Analyze(input) ==
  /\ anStage = "ready"
  /\ anInput' = input
  /\ anCleaned' = stripAnsi(input.text)
  /\ IF anAnalyzer = "regex"
     THEN /\ anResult' = regexAnalyze(anConfig, input)
          /\ anStage' = "done" /\ anFetched' = FALSE
     ELSE IF Len(trim(stripAnsi(input.text))) < MinVisible
          THEN /\ anResult' = NotDetected(0)
               /\ anStage' = "done" /\ anFetched' = FALSE
          ELSE /\ anResult' = NoAnalysis
               /\ anStage' = "fetching" /\ anFetched' = TRUE
  /\ UNCHANGED <<anConfig, anAnalyzer>>
  /\ UNCHANGED <<config, listeners, lastReply, ivars, cvars, fvars, gvars, xvars, tvars>>

\* the awaited fetch settles and analyze runs to its end
FetchSettles(reply) ==
  /\ anStage = "fetching"
  /\ CASE reply.status \in {"threw", "non2xx", "jsonRejects", "badJson"} ->
            fallback(anConfig, anInput)
       [] reply.status = "noText" ->
            anStage' = "done" /\ anResult' = NotDetected(0)
       [] OTHER ->
            anStage' = "done" /\ anResult' = parsedResult(reply, anInput)
  /\ UNCHANGED <<anConfig, anAnalyzer, anInput, anCleaned, anFetched>>
  /\ UNCHANGED <<config, listeners, lastReply, ivars, cvars, fvars, gvars, xvars, tvars>>

\* the state after createConductorForwarder(deps) and new Conductor(options)
InitOrchestrator ==
  /\ config \in Configs
  /\ childProc = "unspawned" /\ child = FALSE /\ buffer = <<>>
  /\ flushTimer = FALSE /\ chunksSent = 0 /\ flushed = <<>>
  /\ active = FALSE /\ pending = {} /\ history = <<>> /\ requests = <<>>
  /\ auditStream = TRUE
  /\ auditLog = [i \in {0} \cup Ids |-> <<>>]
  /\ events = [i \in {0} \cup Ids |-> <<>>]
  /\ listeners = <<>> /\ heard = <<>> /\ escaped = FALSE
  /\ steps = [i \in Ids |-> <<>>] /\ lastReply = None
  /\ forwarderCleanup = FALSE /\ analyzing = 0 /\ executing = {}
  /\ notifying = {} /\ execCalls = [i \in Ids |-> 0] /\ discarded = FALSE
  /\ stdin = <<>>
  /\ fwdPending = <<>> /\ callbacks = FALSE
  /\ inboundCleanup = config.onInboundMessage
  /\ fwdSending = {} /\ fwdCalls = <<>>
  /\ fwdEmitted = [i \in Ids |-> <<>>] /\ fwdDelivered = {}
  /\ fwdDeadline = [i \in Ids |-> 0] /\ timeoutAt = [i \in Ids |-> Untimed]

\* with the gateway module loaded and a browser executor created with the
\* default captureScreenshots
Init ==
  /\ InitOrchestrator /\ InitGateway /\ InitExecutor /\ InitAnalyzer
  /\ exCapture = TRUE /\ exPlane = "up" /\ now = Untimed

(***************************************************************************)
(* Injector                                                                *)
(***************************************************************************)
\* this.child?.stdin?.writable: the pipe is open while the interceptor holds
\* the child; stop() drops the reference
stdinWritable == child

Blank == [type |-> "blank", reason |-> ""]

\* the injection without its closing blank line
injectLines_noTrailer(id, payload) ==
  << [id |-> id, line |-> Blank], [id |-> id, line |-> payload] >>

\* the three injectLine calls of injectResults / injectDenial / injectTimeout
injectLines(id, payload) ==
  << [id |-> id, line |-> Blank], [id |-> id, line |-> payload],
     [id |-> id, line |-> Blank] >>

\* payload of injectDenial(interceptor, request, reason)
denialPayload(reason) == [type |-> "denied", reason |-> reason]

\* payload of injectTimeout(interceptor, request)
timeoutPayload == [type |-> "timed-out", reason |-> ""]

\* payload of injectResults(interceptor, request, results); outcome says
\* whether some result succeeded
resultsPayload(outcome) == [type |-> "results", reason |-> outcome]

(***************************************************************************)
(* Conductor: the synchronous pieces, as functions of the orchestrator     *)
(* state cs (the fields a handler can change)                              *)
(***************************************************************************)
CS ==
  [pending |-> pending, events |-> events, auditLog |-> auditLog,
   stdin |-> stdin, history |-> history, executing |-> executing,
   notifying |-> notifying, execCalls |-> execCalls,
   discarded |-> discarded, heard |-> heard, escaped |-> escaped,
   steps |-> steps]

SetCS(cs) ==
  /\ pending' = cs.pending /\ events' = cs.events
  /\ auditLog' = cs.auditLog /\ stdin' = cs.stdin /\ history' = cs.history
  /\ executing' = cs.executing /\ notifying' = cs.notifying
  /\ execCalls' = cs.execCalls /\ discarded' = cs.discarded
  /\ heard' = cs.heard /\ escaped' = cs.escaped /\ steps' = cs.steps

Event(type, id, decision) ==
  [type |-> type, id |-> id, decision |-> decision, resolvedBy |-> ""]

\* the 'authorization-received' event, which carries the authorization
AuthEvent(auth) ==
  [type |-> "authorization-received", id |-> auth.requestId,
   decision |-> auth.decision, resolvedBy |-> auth.resolvedBy]

\* the loop of emit without the try/catch: the first listener that throws
\* ends the loop and its exception leaves emit
callListeners_noCatch(hd, event, l) ==
  LET throwers == { k \in l..Len(listeners) : listeners[k] = "throws" }
      last == IF throwers = {} THEN Len(listeners)
              ELSE CHOOSE k \in throwers : \A j \in throwers : k <= j
  IN [heard |-> [k \in 1..Len(hd) |->
                   IF k >= l /\ k <= last
                   THEN [hd[k] EXCEPT ![event.id] = Append(@, event)]
                   ELSE hd[k]],
      threw |-> throwers # {}]

\* the loop of emit from listener l on: each listener is called with the
\* event inside try/catch, so a listener that throws is passed over
RECURSIVE callListeners(_, _, _)
callListeners(hd, event, l) ==
  IF l > Len(listeners) THEN [heard |-> hd, threw |-> FALSE]
  ELSE callListeners([hd EXCEPT ![l][event.id] = Append(@, event)],
                     event, l + 1)

\* Conductor.emit
emit(cs, event) ==
  LET called == callListeners(cs.heard, event, 1)
  IN [cs EXCEPT !.events[event.id] = Append(@, event),
                !.heard = called.heard,
                !.escaped = @ \/ called.threw]

\* the order of the statements of the handlers: name is done for request id
step(cs, id, name) ==
  IF id = 0 THEN cs ELSE [cs EXCEPT !.steps[id] = Append(@, name)]

\* Conductor.audit: nothing is written once the stream is closed
audit(cs, event, id) ==
  IF auditStream
  THEN step([cs EXCEPT !.auditLog[id] = Append(@, event)], id,
            IF event = "injection" THEN "audit" ELSE "audit-other")
  ELSE cs

\* Conductor.recordHistory
recordHistory(cs, auth, payload, success) ==
  step([cs EXCEPT !.history =
          Append(@, [id |-> auth.requestId, decision |-> auth.decision,
                     instructions |-> auth.instructions,
                     resolvedBy |-> auth.resolvedBy,
                     payload |-> payload, success |-> success])],
       auth.requestId, "history")

\* injectDenial, called with stdin writable: three writes
injectDenial(cs, id, reason) ==
  step([cs EXCEPT !.stdin = @ \o injectLines(id, denialPayload(reason))], id, "inject")

\* injectTimeout, called with stdin writable: three writes
injectTimeout(cs, id) ==
  step([cs EXCEPT !.stdin = @ \o injectLines(id, timeoutPayload)], id, "inject")

\* injectResults, called with stdin writable: three writes
injectResults(cs, id, outcome) ==
  step([cs EXCEPT !.stdin = @ \o injectLines(id, resultsPayload(outcome))], id, "inject")

\* executeAndInject up to `await this.executor.execute(request, auth)`;
\* origin tells which handler awaits the call
executeAndInject(cs, auth, origin) ==
  LET cs1 == emit(cs, Event("executing", auth.requestId, ""))
  IN step([cs1 EXCEPT !.execCalls[auth.requestId] = @ + 1,
                      !.executing = @ \cup {[auth |-> auth,
                                             origin |-> origin]}],
          auth.requestId, "execute")

\* the deny branch without its recordHistory call
denyBranch_noRecord(cs, auth) ==
  IF stdinWritable
  THEN injectDenial(cs, auth.requestId, "operator denied")
  ELSE cs

\* the deny branch of handleAuthorization; an unwritable stdin makes
\* injectDenial throw before anything is written or recorded
denyBranch(cs, auth) ==
  IF stdinWritable
  THEN recordHistory(injectDenial(cs, auth.requestId, "operator denied"),
                     auth, denialPayload("operator denied"), FALSE)
  ELSE cs

\* handleAuthorization without the test of the decision
handleAuthorization_noDenyTest(cs, auth) ==
  IF auth.requestId \notin cs.pending
  THEN [cs EXCEPT !.discarded = TRUE]
  ELSE LET cs1 == step([cs EXCEPT !.pending = @ \ {auth.requestId}],
                       auth.requestId, "resolve")
           cs2 == emit(cs1, AuthEvent(auth))
           cs3 == audit(cs2, "authorization-received", auth.requestId)
       IN executeAndInject(cs3, auth, "handleAuthorization")

\* handleAuthorization without the lookup in the Pending map
handleAuthorization_noLookup(cs, auth) ==
  LET cs1 == step([cs EXCEPT !.pending = @ \ {auth.requestId}],
                  auth.requestId, "resolve")
      cs2 == emit(cs1, AuthEvent(auth))
      cs3 == audit(cs2, "authorization-received", auth.requestId)
  IN IF auth.decision = "deny" THEN denyBranch(cs3, auth)
     ELSE executeAndInject(cs3, auth, "handleAuthorization")

\* handleAuthorization without the removal from the Pending map
handleAuthorization_noDelete(cs, auth) ==
  IF auth.requestId \notin cs.pending
  THEN [cs EXCEPT !.discarded = TRUE]
  ELSE LET cs2 == emit(cs, AuthEvent(auth))
           cs3 == audit(cs2, "authorization-received", auth.requestId)
       IN IF auth.decision = "deny" THEN denyBranch(cs3, auth)
          ELSE executeAndInject(cs3, auth, "handleAuthorization")

\* Conductor.handleAuthorization up to its first await
handleAuthorization(cs, auth) ==
  IF auth.requestId \notin cs.pending
  THEN [cs EXCEPT !.discarded = TRUE]
  ELSE LET cs1 == step([cs EXCEPT !.pending = @ \ {auth.requestId}],
                       auth.requestId, "resolve")
           cs2 == emit(cs1, AuthEvent(auth))
           cs3 == audit(cs2, "authorization-received", auth.requestId)
       IN IF auth.decision = "deny" THEN denyBranch(cs3, auth)
          ELSE executeAndInject(cs3, auth, "handleAuthorization")

\* the forwarder's `for (const cb of callbacks) cb(auth)`
deliver(cs, auth) == IF callbacks THEN handleAuthorization(cs, auth) ELSE cs

(***************************************************************************)
(* TerminalInterceptor and the Conductor's lifecycle                       *)
(***************************************************************************)
\* config.maxBufferSize, counted in chunks (the default is 8192 bytes)
maxBufferSize == 2

\* flushBuffer without the reset of the buffer
flushBuffer_noReset(buf) ==
  /\ buffer' = buf
  /\ flushed' = IF buf # <<>> THEN Append(flushed, buf) ELSE flushed
  /\ analyzing' = IF buf # <<>> THEN analyzing + 1 ELSE analyzing

\* flushBuffer emits 'flush' iff the buffer is non-empty; the Conductor's
\* 'flush' listener then runs handleTerminalOutput up to
\* `await this.analyzer.analyze(text)`
flushBuffer(buf) ==
  /\ buffer' = <<>>
  /\ flushed' = IF buf # <<>> THEN Append(flushed, buf) ELSE flushed
  /\ analyzing' = IF buf # <<>> THEN analyzing + 1 ELSE analyzing

\* the Conductor after the 'flush' listener has emitted 'output', if the
\* buffer is flushed
flushEmits(buf) ==
  IF buf # <<>> THEN emit(CS, Event("output", 0, "")) ELSE CS

\* what the steps of a handler outside SetCS leave of the emits in cs
SetEmits(cs) ==
  events' = cs.events /\ heard' = cs.heard /\ escaped' = cs.escaped

\* Conductor.on(listener): the listener is added to the Set; it returns
\* normally from every call, or throws in every call
On(behaviour) ==
  /\ Len(listeners) < MaxListeners
  /\ listeners' = Append(listeners, behaviour)
  /\ heard' = Append(heard, [i \in {0} \cup Ids |-> <<>>])
  /\ UNCHANGED <<config, lastReply, ivars, fvars, gvars, xvars, avars, tvars>>
  /\ UNCHANGED <<active, pending, history, steps, requests, auditStream, auditLog,
                 events, escaped, forwarderCleanup, analyzing, executing,
                 notifying, execCalls, discarded, stdin>>

\* Conductor.start
Start ==
  /\ ~active /\ childProc = "unspawned"
  /\ active' = TRUE
  /\ callbacks' = TRUE /\ forwarderCleanup' = TRUE
  /\ childProc' = "alive" /\ child' = TRUE /\ flushTimer' = TRUE
  /\ SetEmits(emit(CS, Event("started", 0, "")))
  /\ auditLog' = audit(CS, "started", 0).auditLog
  /\ UNCHANGED <<tvars, avars, xvars, gvars, config, listeners, lastReply, buffer, chunksSent, flushed, pending, history, steps,
                 requests, auditStream, analyzing, executing, notifying,
                 execCalls, discarded, stdin, fwdPending, inboundCleanup,
                 fwdSending, fwdCalls, fwdEmitted, fwdDelivered>>

\* child.stdout / child.stderr 'data': appendBuffer, flushing at
\* maxBufferSize.  The listeners stay attached to the streams after stop()
\* and after 'exit': the streams of a child may still be open, and deliver
\* what the child wrote last, when its 'exit' is emitted.
ChildOutput ==
  /\ childProc \in {"alive", "exited"} /\ chunksSent < MaxChunks
  /\ chunksSent' = chunksSent + 1
  /\ LET buf == Append(buffer, chunksSent + 1)
     IN IF Len(buf) >= maxBufferSize
        THEN flushBuffer(buf) /\ SetEmits(flushEmits(buf))
        ELSE /\ buffer' = buf
             /\ UNCHANGED <<flushed, analyzing, events, heard, escaped>>
  /\ UNCHANGED <<tvars, avars, xvars, gvars, config, listeners, lastReply, childProc, child, flushTimer, active, pending,
                 history, steps, requests, auditStream, auditLog, forwarderCleanup,
                 executing, notifying, execCalls, discarded, stdin, fvars>>

\* the setInterval callback of startFlushTimer, with something to flush
FlushTimerFires ==
  /\ flushTimer /\ buffer # <<>>
  /\ flushBuffer(buffer) /\ SetEmits(flushEmits(buffer))
  /\ UNCHANGED <<tvars, avars, xvars, gvars, config, listeners, lastReply, childProc, child, flushTimer, chunksSent, active,
                 pending, history, steps, requests, auditStream, auditLog,
                 forwarderCleanup, executing, notifying, execCalls,
                 discarded, stdin, fvars>>

\* Conductor.stop after the emits that led to cs: interceptor.stop
\* (flush, stop the timer, SIGTERM, drop the child), forwarder.stop (clear
\* timers, pending and callbacks, unsubscribe the inbound handler), the
\* forwarder cleanup, the end of the audit stream, the 'stopped' event
stop(cs) ==
  /\ active' = FALSE
  /\ flushTimer' = FALSE /\ child' = FALSE
  /\ fwdPending' = <<>> /\ callbacks' = FALSE /\ inboundCleanup' = FALSE
  /\ forwarderCleanup' = FALSE
  /\ auditStream' = FALSE
  /\ SetEmits(emit(cs, Event("stopped", 0, "")))

\* the host calls Conductor.stop() on a running conductor
Stop ==
  /\ active
  /\ flushBuffer(buffer)
  /\ stop(flushEmits(buffer))
  /\ UNCHANGED <<tvars, avars, xvars, gvars, config, listeners, lastReply, childProc, chunksSent, pending, history, steps, requests,
                 auditLog, executing, notifying, execCalls, discarded, stdin,
                 fwdSending, fwdCalls, fwdEmitted, fwdDelivered>>

\* child 'exit': final flush, stopFlushTimer, emit 'exit'; the Conductor's
\* 'exit' listener emits 'stopped' and calls stop()
ChildExit ==
  /\ childProc = "alive"
  /\ childProc' = "exited"
  /\ flushBuffer(buffer)
  /\ stop(emit(flushEmits(buffer), Event("stopped", 0, "")))
  /\ UNCHANGED <<tvars, avars, xvars, gvars, config, listeners, lastReply, chunksSent, pending, history, steps, requests, auditLog,
                 executing, notifying, execCalls, discarded, stdin,
                 fwdSending, fwdCalls, fwdEmitted, fwdDelivered>>

(***************************************************************************)
(* Conductor.handleTerminalOutput after the analyzer has answered          *)
(***************************************************************************)
Auth(id, decision, instructions, resolvedBy) ==
  [requestId |-> id, decision |-> decision, instructions |-> instructions,
   resolvedBy |-> resolvedBy]

\* the gate without the comparison with the threshold
passesGate_noThreshold(res) == ~(~res.detected \/ ~res.hasRequest)

\* the gate of handleTerminalOutput: TRUE iff a request is built
passesGate(res) ==
  ~(~res.detected \/ res.confidence < DefaultThreshold \/ ~res.hasRequest)

\* the auto-deny branch; an unwritable stdin makes injectDenial throw into
\* the catch of handleTerminalOutput, which emits an error event
autoDenyBranch(cs, id) ==
  LET auth == Auth(id, "deny", None, "auto-deny")
      cs1 == audit(cs, "auto-denied", id)
  IN IF stdinWritable
     THEN recordHistory(injectDenial(cs1, id, "blocked by auto-deny rule"),
                        auth, denialPayload("blocked by auto-deny rule"),
                        FALSE)
     ELSE emit(cs1, Event("error", 0, ""))

\* the auto-approve branch, up to the await inside executeAndInject
autoApproveBranch(cs, id) ==
  LET cs1 == audit(cs, "auto-approved", id)
      cs2 == emit(cs1, Event("request-detected", id, ""))
  IN executeAndInject(cs2, Auth(id, "approve", None, "auto-approve"),
                      "handleTerminalOutput")

\* the remaining branch without `this.state.pending.set(request.id, request)`
trackPending_noSet(cs, id) ==
  LET cs1 == step(cs, id, "pending-insert")
      cs2 == emit(cs1, Event("request-detected", id, ""))
      cs3 == audit(cs2, "request-detected", id)
  IN emit(cs3, Event("authorization-requested", id, ""))

\* the remaining branch, up to the call of forwarder.requestAuthorization
trackPending(cs, id) ==
  LET cs1 == step([cs EXCEPT !.pending = @ \cup {id}], id, "pending-insert")
      cs2 == emit(cs1, Event("request-detected", id, ""))
      cs3 == audit(cs2, "request-detected", id)
  IN emit(cs3, Event("authorization-requested", id, ""))

\* the analyzer answers res to a handleTerminalOutput call
AnalyzeDone(res) ==
  /\ analyzing > 0
  /\ analyzing' = analyzing - 1
  /\ IF ~passesGate(res)
     THEN UNCHANGED <<pending, history, steps, requests, auditLog, events, heard, escaped,
                      executing, notifying, execCalls, discarded, stdin,
                      fwdSending, fwdCalls>>
     ELSE LET id == Len(requests) + 1
              autoDecision == checkAutoRules(res.url, config.autoDenyPatterns,
                                             config.autoApprovePatterns)
          IN /\ requests' = Append(requests,
                                   [url |-> res.url,
                                    autoDecision |-> autoDecision,
                                    createdAtMs |-> now,
                                    expiresAtMs |-> now + TimeoutTicks])
             /\ IF autoDecision = "deny"
                THEN /\ SetCS(autoDenyBranch(CS, id))
                     /\ UNCHANGED <<fwdSending, fwdCalls>>
                ELSE IF autoDecision = "approve"
                THEN /\ SetCS(autoApproveBranch(CS, id))
                     /\ UNCHANGED <<fwdSending, fwdCalls>>
                ELSE /\ SetCS(trackPending(CS, id))
                     \* requestAuthorization returns at once without
                     \* targets, else it awaits the sends
                     /\ fwdCalls' = Append(fwdCalls, id)
                     /\ fwdSending' = IF config.targets = 0 THEN fwdSending
                                      ELSE fwdSending \cup {id}
  /\ UNCHANGED <<tvars, avars, xvars, gvars, config, listeners, lastReply, ivars, active, auditStream, forwarderCleanup,
                 fwdPending, callbacks, inboundCleanup, fwdEmitted, fwdDelivered>>

(***************************************************************************)
(* Conductor.executeAndInject after its awaits                             *)
(***************************************************************************)
ExecOutcomes == {"success", "failed", "threw"}

\* the catch block of executeAndInject; when injectDenial throws there, the
\* rejection reaches the catch of handleTerminalOutput (auto-approve) or
\* nobody (handleAuthorization is called with `void`)
catchBlock(cs, e) ==
  LET cs1 == emit(cs, Event("error", e.auth.requestId, ""))
  IN IF stdinWritable
     THEN recordHistory(injectDenial(cs1, e.auth.requestId, "execution failed"),
                        e.auth, denialPayload("execution failed"), FALSE)
     ELSE IF e.origin = "handleTerminalOutput"
          THEN emit(cs1, Event("error", 0, ""))
          ELSE cs1

\* executor.execute settles: results (some or no action succeeded) or throw
afterExecute(cs, e, outcome) ==
  LET cs0 == [cs EXCEPT !.executing = @ \ {e}]
  IN IF outcome = "threw" \/ ~stdinWritable THEN catchBlock(cs0, e)
     ELSE LET id == e.auth.requestId
              cs1 == injectResults(cs0, id, outcome)
              cs2 == emit(cs1, Event("injection", id, ""))
              cs3 == audit(cs2, "injection", id)
              cs4 == recordHistory(cs3, e.auth, resultsPayload(outcome),
                                   outcome = "success")
          IN [cs4 EXCEPT !.notifying = @ \cup {e}]

ExecuteDone(e, outcome) ==
  /\ e \in executing
  /\ SetCS(afterExecute(CS, e, outcome))
  /\ UNCHANGED <<tvars, avars, xvars, gvars, config, listeners, lastReply, ivars, active, requests, auditStream,
                 forwarderCleanup, analyzing, fvars>>

\* forwarder.notifyResult resolves: executeAndInject returns
NotifyDone(e) ==
  /\ e \in notifying
  /\ notifying' = notifying \ {e}
  /\ UNCHANGED <<tvars, avars, xvars, gvars, config, listeners, lastReply, ivars, active, pending, history, steps, requests,
                 auditStream, auditLog, events, heard, escaped, forwarderCleanup, analyzing,
                 executing, execCalls, discarded, stdin, fvars>>

\* forwarder.notifyResult rejects (a forwarder other than
\* createConductorForwarder, or a sendMessage that throws synchronously)
NotifyRejects(e) ==
  /\ e \in notifying
  /\ SetCS(catchBlock([CS EXCEPT !.notifying = @ \ {e}], e))
  /\ UNCHANGED <<tvars, avars, xvars, gvars, config, listeners, lastReply, ivars, active, requests, auditStream,
                 forwarderCleanup, analyzing, fvars>>

(***************************************************************************)
(* createConductorForwarder                                                *)
(***************************************************************************)
Str_yes == <<"y", "e", "s">>
Str_approve == <<"a", "p", "p", "r", "o", "v", "e">>
Str_go == <<"g", "o">>
Str_y == <<"y">>
Str_no == <<"n", "o">>
Str_deny == <<"d", "e", "n", "y">>
Str_n == <<"n">>
Sp == <<" ">>

\* requestId.slice(0, 8): ids are numbered, the short id is the number
shortId(id) == <<ToString(id)>>

\* pending.delete that leaves the entry in the Map
mapDelete_keep(m, id) == m

\* removes the first occurrence of id from the pending Map
RECURSIVE mapDelete(_, _)
mapDelete(m, id) ==
  IF m = <<>> THEN <<>>
  ELSE IF Head(m) = id THEN Tail(m)
  ELSE <<Head(m)>> \o mapDelete(Tail(m), id)

mapHas(m, id) == \E i \in 1..Len(m) : m[i] = id

isApproval(text) ==
  \/ text = Str_yes \/ text = Str_approve \/ text = Str_go \/ text = Str_y
  \/ startsWith(text, Str_yes \o Sp)

isDenial(text) ==
  \/ text = Str_no \/ text = Str_deny \/ text = Str_n
  \/ startsWith(text, Str_no \o Sp)

hasInstructions(text) ==
  startsWith(text, Str_yes \o Sp) \/ startsWith(text, Str_approve \o Sp)

\* text.replace(/^(?:yes|approve)\s+/i, ""): the word and the whitespace
\* run after it are removed when the run is non-empty
stripApprovalPrefix(text) ==
  LET afterWord(w) == SubSeq(text, Len(w) + 1, Len(text))
      strip(w) == IF startsWith(text, w) /\ afterWord(w) # <<>>
                     /\ Head(afterWord(w)) \in Whitespace
                  THEN trimStart(afterWord(w)) ELSE text
  IN IF strip(Str_yes) # text THEN strip(Str_yes) ELSE strip(Str_approve)

\* the test of the inbound loop without the size of the pending Map
entryMatches_noSize(text, id, size) ==
  \/ includes(text, shortId(id))
  \/ isApproval(text) \/ isDenial(text)

\* the test of the inbound loop for one pending entry
entryMatches(text, id, size) ==
  \/ includes(text, shortId(id))
  \/ (size = 1 /\ (isApproval(text) \/ isDenial(text)))

\* the authorization built for the matched entry
inboundAuth(text, id) ==
  LET approved == isApproval(text)
                    \/ (includes(text, shortId(id)) /\ ~isDenial(text))
      decision == IF ~approved THEN "deny"
                  ELSE IF hasInstructions(text)
                       THEN "approve-with-instructions" ELSE "approve"
      instructions == IF approved /\ hasInstructions(text)
                      THEN trim(stripApprovalPrefix(text)) ELSE None
  IN Auth(id, decision, instructions, "telegram:op")

\* the first entry of the pending Map, in insertion order, that matches;
\* 0 when the loop ends without a match
RECURSIVE firstMatch(_, _, _)
firstMatch(text, entries, size) ==
  IF entries = <<>> THEN 0
  ELSE IF entryMatches(text, Head(entries), size) THEN Head(entries)
  ELSE firstMatch(text, Tail(entries), size)

\* msg.text.trim().toLowerCase()
normalize(raw) == toLowerCase(trim(raw))

\* texts an operator may send; some carry the short id of a request
InboundTexts ==
  { <<"Y", "E", "S">>, <<" ", "y", "e", "s", " ">>, Str_y, Str_go,
    Str_approve, Str_no, Str_deny, Str_n, <<"o", "k">>,
    Str_yes \o <<" ", "\t", "x", " ">>,
    Str_approve \o Sp \o <<"x">>, Str_no \o Sp \o <<"x">> }
  \cup { shortId(i) : i \in Ids }
  \cup { Str_deny \o Sp \o shortId(i) : i \in Ids }
  \cup { shortId(i) \o Sp \o shortId(j) : i, j \in Ids }

\* requestAuthorization after `await Promise.allSettled(sends)`: the timer
\* is armed and the request is put in the pending Map
SendsSettled(id) ==
  /\ id \in fwdSending
  /\ fwdSending' = fwdSending \ {id}
  /\ fwdPending' = IF mapHas(fwdPending, id) THEN fwdPending
                   ELSE Append(fwdPending, id)
  /\ fwdDeadline' = [fwdDeadline EXCEPT ![id] = now + TimeoutTicks]
  /\ UNCHANGED <<now, timeoutAt>>
  /\ UNCHANGED <<avars, xvars, gvars, config, listeners, lastReply, ivars, cvars, callbacks,
                 inboundCleanup, fwdCalls, fwdEmitted, fwdDelivered>>

\* one of the deps.sendMessage calls of requestAuthorization has put the
\* prompt before its operator; `await Promise.allSettled(sends)` has not
\* resumed
Delivered(id) ==
  /\ id \in fwdSending /\ id \notin fwdDelivered
  /\ fwdDelivered' = fwdDelivered \cup {id}
  /\ UNCHANGED <<tvars, avars, xvars, gvars, config, listeners, lastReply,
                 ivars, cvars, fwdPending, callbacks, inboundCleanup,
                 fwdSending, fwdCalls, fwdEmitted>>

\* for (const cb of callbacks) cb(auth): the subscribers, if any, get auth
emitAuth(auth) ==
  IF callbacks
  THEN [fwdEmitted EXCEPT ![auth.requestId] = Append(@, auth.resolvedBy)]
  ELSE fwdEmitted

\* the setTimeout callback of requestAuthorization
TimerFires(id) ==
  /\ mapHas(fwdPending, id)
  /\ now = Untimed \/ now >= fwdDeadline[id]
  /\ fwdPending' = mapDelete(fwdPending, id)
  /\ timeoutAt' = [timeoutAt EXCEPT ![id] = now]
  /\ SetCS(deliver(CS, Auth(id, "deny", None, "timeout")))
  /\ fwdEmitted' = emitAuth(Auth(id, "deny", None, "timeout"))
  /\ UNCHANGED <<now, fwdDeadline>>
  /\ UNCHANGED <<avars, xvars, gvars, config, listeners, lastReply, ivars, active, requests, auditStream,
                 forwarderCleanup, analyzing, callbacks, inboundCleanup,
                 fwdSending, fwdCalls, fwdDelivered>>

\* the clock advances by one tick; a timer that is due fires before it
\* does (no scheduling jitter)
Tick ==
  /\ now # Untimed /\ now < MaxTime
  /\ \A id \in Ids : mapHas(fwdPending, id) => now < fwdDeadline[id]
  /\ now' = now + 1
  /\ UNCHANGED <<fwdDeadline, timeoutAt>>
  /\ UNCHANGED <<config, listeners, lastReply, ivars, cvars, fvars, gvars, xvars, avars>>

\* the callback given to deps.onInboundMessage
onInbound(raw) ==
  /\ LET text == normalize(raw)
         id == firstMatch(text, fwdPending, Len(fwdPending))
     IN IF id = 0
        THEN UNCHANGED <<fwdPending, pending, events, heard, escaped, auditLog, stdin,
                         history, steps, executing, notifying, execCalls,
                         discarded, fwdEmitted, fwdDelivered>>
        ELSE /\ fwdPending' = mapDelete(fwdPending, id)
             /\ SetCS(deliver(CS, inboundAuth(text, id)))
             /\ fwdEmitted' = emitAuth(inboundAuth(text, id))
  /\ UNCHANGED <<tvars, avars, xvars, gvars, config, listeners, ivars,
                 active, requests, auditStream, forwarderCleanup, analyzing,
                 callbacks, inboundCleanup, fwdSending, fwdCalls>>
  /\ fwdDelivered' = fwdDelivered

\* the host calls the callback it was given with a message
InboundMessage(raw) ==
  /\ inboundCleanup
  /\ onInbound(raw)
  /\ UNCHANGED lastReply

\* the operator sends a message on the channel: it reaches the callback
\* given to deps.onInboundMessage, if the forwarder was given that hook
OperatorReply(raw) ==
  /\ lastReply' = raw
  /\ IF inboundCleanup THEN onInbound(raw)
     ELSE UNCHANGED <<config, listeners, ivars, cvars, fvars, gvars, xvars,
                      avars, tvars>>

(***************************************************************************)
(* A forwarder other than createConductorForwarder: the callback passed to *)
(* onAuthorization is called with any authorization while subscribed       *)
(***************************************************************************)
ExternalAuths ==
  { Auth(id, d, None, r) :
      id \in Ids, d \in {"approve", "deny"}, r \in {"operator"} }

ExternalAuthorization(auth) ==
  /\ forwarderCleanup
  /\ SetCS(handleAuthorization(CS, auth))
  /\ UNCHANGED <<tvars, avars, xvars, gvars, config, listeners, lastReply, ivars, active, requests, auditStream,
                 forwarderCleanup, analyzing, fvars>>

(***************************************************************************)
(* The operator's keyboard: process.stdin 'data' is forwarded to the child *)
(***************************************************************************)
\* a chunk typed by the operator, as written to the child's stdin
HostChunk == [id |-> 0, line |-> [type |-> "host", reason |-> ""]]

hostWrites == { i \in 1..Len(stdin) : stdin[i] = HostChunk }

\* the process.stdin 'data' listener attached by TerminalInterceptor.start
HostStdin ==
  /\ childProc # "unspawned"
  /\ Cardinality(hostWrites) < MaxHostChunks
  /\ stdin' = IF stdinWritable THEN Append(stdin, HostChunk) ELSE stdin
  /\ UNCHANGED <<tvars, avars, xvars, gvars, config, listeners, lastReply, ivars, active, pending, history, steps, requests,
                 auditStream, auditLog, events, heard, escaped, forwarderCleanup, analyzing,
                 executing, notifying, execCalls, discarded, fvars>>

(***************************************************************************)
(* Gateway RPC handlers: actions                                           *)
(***************************************************************************)
\* the gateway state as one record
GS ==
  [pending |-> conductorPending, history |-> conductorHistory,
   stage |-> gwStage, result |-> gwResult, timer |-> gwTimer,
   responded |-> gwResponded, resolved |-> gwResolved]

SetGS(gs) ==
  /\ conductorPending' = gs.pending /\ conductorHistory' = gs.history
  /\ gwStage' = gs.stage /\ gwResult' = gs.result /\ gwTimer' = gs.timer
  /\ gwResponded' = gs.responded /\ gwResolved' = gs.resolved

\* resolveDecision where a settled promise takes the new value
resolveDecision_overwrite(gs, id, value) ==
  IF gs.stage[id] \in {"awaiting", "resumable"}
  THEN [gs EXCEPT !.stage[id] = "resumable", !.result[id] = value]
  ELSE gs

\* resolveDecision(value): settles decisionPromise, which wakes the handler
\* waiting on it; a promise that is already settled keeps its value
resolveDecision(gs, id, value) ==
  IF gs.stage[id] = "awaiting"
  THEN [gs EXCEPT !.stage[id] = "resumable", !.result[id] = value]
  ELSE gs

RequestParams == [summary : {None, <<>>, <<"s">>}, url : {None, <<"u">>}]

\* conductor.request up to `await decisionPromise`: the entry is stored,
\* 'conductor.requested' is broadcast and the timer is armed
GwRequest(p) ==
  /\ IF falsy(p.summary) /\ falsy(p.url)
     THEN /\ gwResponse' = ErrorResponse("conductor.request",
                                         "summary or url required")
          /\ UNCHANGED <<conductorPending, conductorHistory, gwCreated,
                         gwStage, gwResult, gwTimer, gwResponded, gwResolved>>
     ELSE /\ gwCreated < MaxRequests
          /\ LET id == MaxChunks + gwCreated + 1
             IN /\ gwCreated' = gwCreated + 1
                /\ conductorPending' = conductorPending \cup {id}
                /\ gwTimer' = gwTimer \cup {id}
                /\ gwStage' = [gwStage EXCEPT ![id] = "awaiting"]
          /\ UNCHANGED <<conductorHistory, gwResult, gwResponded, gwResolved,
                         gwResponse>>
  /\ UNCHANGED <<config, listeners, lastReply, ivars, cvars, fvars, xvars, avars, tvars>>

\* the setTimeout callback of conductor.request; a timer callback runs only
\* when no promise continuation is waiting to run
GwTimerFires(id) ==
  /\ id \in gwTimer
  /\ \A i \in GwIds : gwStage[i] # "resumable"
  /\ LET gs1 == [GS EXCEPT !.timer = @ \ {id}]
     IN SetGS(IF id \in gs1.pending
              THEN resolveDecision([gs1 EXCEPT !.pending = @ \ {id}], id,
                                   Result("deny"))
              ELSE gs1)
  /\ UNCHANGED <<gwCreated, gwResponse>>
  /\ UNCHANGED <<config, listeners, lastReply, ivars, cvars, fvars, xvars, avars, tvars>>

\* conductor.request after `await decisionPromise`
GwResume(id) ==
  /\ gwStage[id] = "resumable"
  /\ SetGS([GS EXCEPT !.timer = @ \ {id},
                      !.pending = @ \ {id},
                      !.history = Append(@, [id |-> id,
                                            decision |-> gwResult[id].decision]),
                      !.responded[id] = Append(@, gwResult[id]),
                      !.stage[id] = "done"])
  /\ UNCHANGED <<gwCreated, gwResponse>>
  /\ UNCHANGED <<config, listeners, lastReply, ivars, cvars, fvars, xvars, avars, tvars>>

\* p.instructions of a conductor.resolve: absent, or a text
GwInstructions == {None, <<"x">>}

\* params of conductor.resolve: id 0 and decision "" stand for a missing
\* field; the ids are those of the gateway and of the orchestrator
ResolveParams ==
  [id : {0} \cup Ids \cup GwIds,
   decision : {"", "maybe", "approve", "deny", "approve-with-instructions"},
   instructions : {None}]

\* well-formed params of conductor.resolve, with and without instructions
InstructedParams ==
  [id : GwIds, decision : Decisions, instructions : GwInstructions]

\* the validation of conductor.resolve without the test of the decision
resolveError_noDecisionTest(p, pendingIds) ==
  IF p.id = 0 \/ p.decision = "" THEN "id and decision required"
  ELSE IF p.id \notin pendingIds THEN "unknown request id"
  ELSE ""

\* the error conductor.resolve responds with, "" when the params pass
resolveError(p, pendingIds) ==
  IF p.id = 0 \/ p.decision = "" THEN "id and decision required"
  ELSE IF p.decision \notin Decisions THEN "invalid decision"
  ELSE IF p.id \notin pendingIds THEN "unknown request id"
  ELSE ""

\* conductor.resolve calls accepted so far for the ids in S
RECURSIVE resolvedCount(_)
resolvedCount(S) ==
  IF S = {} THEN 0
  ELSE LET i == CHOOSE x \in S : TRUE
       IN Len(gwResolved[i]) + resolvedCount(S \ {i})

\* conductor.resolve
GwResolve(p) ==
  /\ LET error == resolveError(p, conductorPending)
     IN IF error # ""
        THEN /\ gwResponse' = ErrorResponse("conductor.resolve", error)
             /\ UNCHANGED <<conductorPending, conductorHistory, gwStage,
                            gwResult, gwTimer, gwResponded, gwResolved>>
        ELSE /\ resolvedCount(GwIds) < MaxResolved
             /\ SetGS([resolveDecision(GS, p.id,
                                       ResultWith(p.decision, p.instructions))
                         EXCEPT !.resolved[p.id] =
                                  Append(@, ResultWith(p.decision,
                                                       p.instructions))])
             /\ gwResponse' = Response("conductor.resolve", TRUE, "", p.id,
                                       0, {}, <<>>, 0)
  /\ UNCHANGED gwCreated
  /\ UNCHANGED <<config, listeners, lastReply, ivars, cvars, fvars, xvars, avars, tvars>>

\* conductor.status
GwStatus ==
  /\ gwResponse' = Response("conductor.status", TRUE, "", 0, 0,
                            conductorPending, <<>>, Len(conductorHistory))
  /\ UNCHANGED <<conductorPending, conductorHistory, gwCreated, gwStage,
                 gwResult, gwTimer, gwResponded, gwResolved>>
  /\ UNCHANGED <<config, listeners, lastReply, ivars, cvars, fvars, xvars, avars, tvars>>

\* Array.prototype.slice(start); slice(-0) is slice(0)
slice(arr, start) ==
  LET k == IF start < 0
           THEN (IF Len(arr) + start > 0 THEN Len(arr) + start ELSE 0)
           ELSE (IF start < Len(arr) THEN start ELSE Len(arr))
  IN SubSeq(arr, k + 1, Len(arr))

DefaultLimit == 50

\* params of conductor.history: limit given or not
HistoryParams ==
  {[given |-> FALSE, limit |-> 0]}
    \cup [given : {TRUE}, limit : 0..(MaxRequests + 1)]

\* conductor.history
GwHistory(p) ==
  /\ LET limit == IF p.given THEN p.limit ELSE DefaultLimit
     IN gwResponse' = Response("conductor.history", TRUE, "", 0, limit, {},
                               slice(conductorHistory, 0 - limit),
                               Len(conductorHistory))
  /\ UNCHANGED <<conductorPending, conductorHistory, gwCreated, gwStage,
                 gwResult, gwTimer, gwResponded, gwResolved>>
  /\ UNCHANGED <<config, listeners, lastReply, ivars, cvars, fvars, xvars, avars, tvars>>

(***************************************************************************)
(* createBrowserExecutor: actions                                          *)
(***************************************************************************)
\* execute up to the first `await executeAction(action, ...)`
Execute(request, authorization) ==
  /\ exStage = "idle"
  /\ exCall' = <<request, authorization.instructions>>
  /\ LET actions == resolveActions(request, authorization)
     IN /\ exActions' = actions
        /\ IF actions = <<>>
           THEN exStage' = "done" /\ exPos' = 0 /\ exDispatched' = <<>>
           ELSE /\ exStage' = "action" /\ exPos' = 1
                /\ exDispatched' = <<actions[1]>>
  /\ UNCHANGED <<exCapture, exPlane, exResults>>
  /\ UNCHANGED <<config, listeners, lastReply, ivars, cvars, fvars, gvars, avars, tvars>>

\* after the loop: the auto-screenshot if configured and no screenshot is
\* among the actions; stopped tells whether the loop was left by `break`
afterLoop(stopped) ==
  IF exCapture
     /\ \A i \in 1..Len(exActions) : exActions[i].type # "screenshot"
  THEN /\ exStage' = "autoshot"
       /\ exDispatched' = Append(exDispatched, Screenshot)
  ELSE /\ exStage' = "done"
       /\ UNCHANGED exDispatched

\* the awaited executeAction of the loop settles
ActionDone(outcome) ==
  /\ exStage = "action" /\ exPlane = "up"
  /\ LET action == exActions[exPos]
         stopped == outcome = "failed" /\ action.type = "navigate"
     IN /\ exResults' = Append(exResults, ActionResult(action, outcome))
        /\ IF ~stopped /\ exPos < Len(exActions)
           THEN /\ exPos' = exPos + 1
                /\ exDispatched' = Append(exDispatched, exActions[exPos + 1])
                /\ UNCHANGED exStage
           ELSE /\ afterLoop(stopped)
                /\ UNCHANGED exPos
  /\ UNCHANGED <<exCapture, exPlane, exCall, exActions>>
  /\ UNCHANGED <<config, listeners, lastReply, ivars, cvars, fvars, gvars, avars, tvars>>

\* the awaited executeAction of the auto-screenshot settles; a rejection
\* is swallowed
AutoScreenshotDone(outcome) ==
  /\ exStage = "autoshot" /\ exPlane = "up"
  /\ exResults' = IF outcome = "threw" THEN exResults
                  ELSE Append(exResults, ActionResult(Screenshot, outcome))
  /\ exStage' = "done"
  /\ UNCHANGED <<exCapture, exPlane, exCall, exActions, exPos, exDispatched>>
  /\ UNCHANGED <<config, listeners, lastReply, ivars, cvars, fvars, gvars, avars, tvars>>

(***************************************************************************)
(* Specifications                                                          *)
(***************************************************************************)
Next ==
  \/ Start
  \/ ChildOutput
  \/ FlushTimerFires
  \/ Stop
  \/ ChildExit
  \/ \E res \in AnalyzerResults : AnalyzeDone(res)
  \/ \E e \in executing : \E o \in ExecOutcomes : ExecuteDone(e, o)
  \/ \E e \in notifying : NotifyDone(e)
  \/ \E id \in fwdSending : SendsSettled(id)
  \/ \E id \in Ids : TimerFires(id)
  \/ \E raw \in InboundTexts : InboundMessage(raw)

\* the production wiring: createConductorForwarder with a sendMessage that
\* returns a promise
Spec == Init /\ [][Next]_vars

\* the Conductor with any other ConductorForwarder: requestAuthorization
\* only takes note of the request, the subscribed callback is called with
\* any authorization, notifyResult resolves or rejects
InitDI == Init /\ config.targets = 0 /\ ~config.onInboundMessage

NextDI ==
  \/ Start
  \/ ChildOutput
  \/ FlushTimerFires
  \/ Stop
  \/ ChildExit
  \/ \E res \in AnalyzerResults : AnalyzeDone(res)
  \/ \E e \in executing : \E o \in ExecOutcomes : ExecuteDone(e, o)
  \/ \E e \in notifying : NotifyDone(e)
  \/ \E auth \in ExternalAuths : ExternalAuthorization(auth)
  \/ \E e \in notifying : NotifyRejects(e)

SpecDI == InitDI /\ [][NextDI]_vars

\* the production wiring under the fairness the event loop gives: promise
\* continuations run and armed timers fire (the analyzer, the executor and
\* the sends are assumed to settle)
FairSpec ==
  /\ Spec
  /\ WF_vars(\E res \in AnalyzerResults : AnalyzeDone(res))
  /\ WF_vars(\E e \in executing : \E o \in ExecOutcomes : ExecuteDone(e, o))
  /\ WF_vars(\E e \in notifying : NotifyDone(e))
  /\ WF_vars(\E id \in fwdSending : SendsSettled(id))
  /\ WF_vars(\E id \in Ids : TimerFires(id))


(***************************************************************************)
(* The gateway handlers on their own                                       *)
(***************************************************************************)
InitGW == Init /\ config.targets = 0 /\ ~config.onInboundMessage

NextGW ==
  \/ \E p \in RequestParams : GwRequest(p)
  \/ \E p \in ResolveParams : GwResolve(p)
  \/ \E id \in GwIds : GwTimerFires(id)
  \/ \E id \in GwIds : GwResume(id)

SpecGW == InitGW /\ [][NextGW]_vars

\* the gateway handlers with conductor.resolve calls that carry
\* instructions
NextGWInstructed ==
  \/ \E p \in RequestParams : GwRequest(p)
  \/ \E p \in InstructedParams : GwResolve(p)
  \/ \E id \in GwIds : GwTimerFires(id)
  \/ \E id \in GwIds : GwResume(id)

SpecGWInstructed == InitGW /\ [][NextGWInstructed]_vars

\* the event loop runs promise continuations and fires armed timers
FairGW ==
  /\ SpecGW
  /\ WF_vars(\E id \in GwIds : GwTimerFires(id))
  /\ WF_vars(\E id \in GwIds : GwResume(id))

\* the gateway handlers with the calls that only read
NextGWRead ==
  \/ \E p \in RequestParams : GwRequest(p)
  \/ \E p \in ResolveParams : GwResolve(p)
  \/ \E id \in GwIds : GwTimerFires(id)
  \/ \E id \in GwIds : GwResume(id)
  \/ GwStatus
  \/ \E p \in HistoryParams : GwHistory(p)

SpecGWRead == InitGW /\ [][NextGWRead]_vars

(***************************************************************************)
(* The orchestrator in its production wiring next to the RPC facade: the   *)
(* external UI calls conductor.status and conductor.resolve while the      *)
(* Conductor runs                                                          *)
(***************************************************************************)
InitFacade == Init /\ config.targets = 1 /\ config.onInboundMessage

NextFacade ==
  \/ Start
  \/ ChildOutput
  \/ FlushTimerFires
  \/ Stop
  \/ ChildExit
  \/ \E res \in AnalyzerResults : AnalyzeDone(res)
  \/ \E e \in executing : \E o \in ExecOutcomes : ExecuteDone(e, o)
  \/ \E e \in notifying : NotifyDone(e)
  \/ \E id \in fwdSending : SendsSettled(id)
  \/ \E id \in Ids : TimerFires(id)
  \/ \E raw \in InboundTexts : InboundMessage(raw)
  \/ \E p \in ResolveParams : GwResolve(p)
  \/ GwStatus

SpecFacade == InitFacade /\ [][NextFacade]_vars

(***************************************************************************)
(* The production wiring with the operator typing into the terminal        *)
(***************************************************************************)
InitStdin == Init /\ config.targets = 1 /\ ~config.onInboundMessage

NextStdin ==
  \/ Start
  \/ ChildOutput
  \/ FlushTimerFires
  \/ Stop
  \/ ChildExit
  \/ \E res \in AnalyzerResults : AnalyzeDone(res)
  \/ \E e \in executing : \E o \in ExecOutcomes : ExecuteDone(e, o)
  \/ \E e \in notifying : NotifyDone(e)
  \/ \E id \in fwdSending : SendsSettled(id)
  \/ \E id \in Ids : TimerFires(id)
  \/ HostStdin

SpecStdin == InitStdin /\ [][NextStdin]_vars

(***************************************************************************)
(* One call of the browser executor's execute                              *)
(***************************************************************************)
\* captureScreenshots is configured either way
InitExec ==
  /\ InitOrchestrator /\ config.targets = 0 /\ ~config.onInboundMessage
  /\ InitGateway /\ InitExecutor /\ InitAnalyzer
  /\ exCapture \in BOOLEAN
  /\ exPlane \in BrowserPlanes /\ now = Untimed

NextExec ==
  \/ \E request \in ExecRequests : \E instructions \in ExecInstructions :
       Execute(request, Auth(1, "approve", instructions, "operator"))
  \/ \E outcome \in ActionOutcomes : ActionDone(outcome)
  \/ \E outcome \in ActionOutcomes : AutoScreenshotDone(outcome)

SpecExec == InitExec /\ [][NextExec]_vars

\* a call the browser plane settles resumes execute; nothing else in
\* execute or executeAction is scheduled (no timer is armed)
FairExec ==
  /\ SpecExec
  /\ WF_vars(\E outcome \in ActionOutcomes : ActionDone(outcome))
  /\ WF_vars(\E outcome \in ActionOutcomes : AutoScreenshotDone(outcome))

(***************************************************************************)
\* analyzer results that pass the gate and match no auto rule: their
\* requests go to the forwarder
ForwardedResults ==
  {res \in AnalyzerResults :
     res.detected /\ res.hasRequest /\ res.confidence = 8 /\ res.url = None}

\* operator replies: approvals and denials without an id, and short ids
FwdTexts == {Str_y, Str_no} \cup { shortId(i) : i \in Ids }

\* the production wiring with one target and an inbound subscription, every
\* request being forwarded
InitFwd == Init /\ config.targets = 1 /\ config.onInboundMessage

NextFwd ==
  \/ Start
  \/ ChildOutput
  \/ FlushTimerFires
  \/ Stop
  \/ ChildExit
  \/ \E res \in ForwardedResults : AnalyzeDone(res)
  \/ \E e \in executing : \E o \in ExecOutcomes : ExecuteDone(e, o)
  \/ \E e \in notifying : NotifyDone(e)
  \/ \E id \in fwdSending : SendsSettled(id)
  \/ \E id \in Ids : TimerFires(id)
  \/ \E raw \in FwdTexts : InboundMessage(raw)

SpecFwd == InitFwd /\ [][NextFwd]_vars

\* promise continuations run and armed timers fire
FairFwd ==
  /\ SpecFwd
  /\ WF_vars(\E res \in ForwardedResults : AnalyzeDone(res))
  /\ WF_vars(\E e \in executing : \E o \in ExecOutcomes : ExecuteDone(e, o))
  /\ WF_vars(\E e \in notifying : NotifyDone(e))
  /\ WF_vars(\E id \in fwdSending : SendsSettled(id))
  /\ WF_vars(\E id \in Ids : TimerFires(id))

(***************************************************************************)
(* The wiring of the CLI: createGatewayForwarder gives the forwarder a     *)
(* sendMessage and no onInboundMessage                                     *)
(***************************************************************************)
InitCli == Init /\ ~config.onInboundMessage

\* what the operator answers to a prompt
OperatorTexts == {Str_yes, Str_no}

NextCli ==
  \/ Start
  \/ ChildOutput
  \/ FlushTimerFires
  \/ Stop
  \/ ChildExit
  \/ \E res \in AnalyzerResults : AnalyzeDone(res)
  \/ \E e \in executing : \E o \in ExecOutcomes : ExecuteDone(e, o)
  \/ \E e \in notifying : NotifyDone(e)
  \/ \E id \in fwdSending : SendsSettled(id)
  \/ \E id \in Ids : TimerFires(id)
  \/ \E raw \in OperatorTexts : OperatorReply(raw)

SpecCli == InitCli /\ [][NextCli]_vars

(***************************************************************************)
(* The production wiring with an inbound subscription, the delivery of the *)
(* prompt to the operator being a step of its own                          *)
(***************************************************************************)
NextWindow ==
  \/ Start
  \/ ChildOutput
  \/ FlushTimerFires
  \/ Stop
  \/ ChildExit
  \/ \E res \in ForwardedResults : AnalyzeDone(res)
  \/ \E e \in executing : \E o \in ExecOutcomes : ExecuteDone(e, o)
  \/ \E e \in notifying : NotifyDone(e)
  \/ \E id \in fwdSending : Delivered(id)
  \/ \E id \in fwdSending : SendsSettled(id)
  \/ \E id \in Ids : TimerFires(id)
  \/ \E raw \in OperatorTexts : OperatorReply(raw)

SpecWindow == InitFwd /\ [][NextWindow]_vars

(***************************************************************************)
(* The production wiring with subscribers of the Conductor's events        *)
(***************************************************************************)
ListenerBehaviours == {"returns", "throws"}

\* the host subscribes its listeners before it calls start(), as the CLI does
NextListeners ==
  \/ childProc = "unspawned" /\ \E behaviour \in ListenerBehaviours : On(behaviour)
  \/ Start
  \/ ChildOutput
  \/ FlushTimerFires
  \/ Stop
  \/ ChildExit
  \/ \E res \in ForwardedResults : AnalyzeDone(res)
  \/ \E e \in executing : \E o \in ExecOutcomes : ExecuteDone(e, o)
  \/ \E e \in notifying : NotifyDone(e)
  \/ \E id \in fwdSending : SendsSettled(id)
  \/ \E id \in Ids : TimerFires(id)
  \/ \E raw \in FwdTexts : InboundMessage(raw)

SpecListeners == InitFwd /\ [][NextListeners]_vars

(***************************************************************************)
\* the production wiring with one target and a clock: sends take time
InitTimed ==
  /\ InitOrchestrator /\ config.targets = 1 /\ ~config.onInboundMessage
  /\ InitGateway /\ InitExecutor /\ InitAnalyzer
  /\ exCapture = TRUE /\ exPlane = "up" /\ now = 0

NextTimed ==
  \/ Start
  \/ ChildOutput
  \/ FlushTimerFires
  \/ Stop
  \/ ChildExit
  \/ \E res \in AnalyzerResults : AnalyzeDone(res)
  \/ \E e \in executing : \E o \in ExecOutcomes : ExecuteDone(e, o)
  \/ \E e \in notifying : NotifyDone(e)
  \/ \E id \in fwdSending : SendsSettled(id)
  \/ \E id \in Ids : TimerFires(id)
  \/ Tick

SpecTimed == InitTimed /\ [][NextTimed]_vars

(***************************************************************************)
\* createAnalyzer with any configuration, then one analyze call
NextAn ==
  \/ \E cfg \in AnalyzerConfigs : CreateAnalyzer(cfg)
  \/ anStage = "ready" /\ \E input \in AnalyzerInputs : Analyze(input)
  \/ \E reply \in RemoteReplies : FetchSettles(reply)

SpecAn == InitDI /\ [][NextAn]_vars

\* the characters of ANSI sequences: \x1B, the brackets, a digit, the
\* separator, a letter and \x07
StripAlphabet == {ESC, "[", "]", "0", ";", "m", BEL}

StripTexts == UNION { [1..n -> StripAlphabet] : n \in 0..MaxStrLen }

\* the rule-based analyzer on every terminal output over StripAlphabet,
\* none of which matches a pattern
NextStrip ==
  \/ CreateAnalyzer([provider |-> "regex", apiKey |-> FALSE,
                     patterns |-> <<>>])
  \/ /\ anStage = "ready"
     /\ \E text \in StripTexts :
          Analyze([text |-> text, matches |-> NoMatches])

SpecStrip == InitDI /\ [][NextStrip]_vars

(***************************************************************************)
(* checkAutoRules over a wider choice of rules and URLs: the Conductor has *)
(* been started, the first chunk has been flushed by the timer, and the    *)
(* analyzer is about to answer                                             *)
(***************************************************************************)
RulePatternLists ==
  { <<>>, << <<"a", ".", "b">> >>, << <<"z">>, <<"a", "*">> >>,
    << <<"a", "?", "b">> >>, << <<"*">>, <<"c">> >> }

RuleUrls == { <<"a", ".", "b">>, <<"A", "x", "b">>, <<"c">>, <<>>, None }

RuleConfigs ==
  [autoDenyPatterns : RulePatternLists, autoApprovePatterns : RulePatternLists,
   targets : {1}, onInboundMessage : {FALSE}]

RuleAnalyzerResults ==
  [detected : {TRUE}, confidence : {8}, hasRequest : {TRUE}, url : RuleUrls]

InitRules ==
  /\ config \in RuleConfigs
  /\ childProc = "alive" /\ child = TRUE /\ buffer = <<>>
  /\ flushTimer = TRUE /\ chunksSent = 1 /\ flushed = << <<1>> >>
  /\ active = TRUE /\ pending = {} /\ history = <<>> /\ requests = <<>>
  /\ auditStream = TRUE
  /\ auditLog = [i \in {0} \cup Ids |-> IF i = 0 THEN <<"started">> ELSE <<>>]
  /\ events = [i \in {0} \cup Ids |->
                 IF i = 0 THEN <<Event("started", 0, ""), Event("output", 0, "")>>
                 ELSE <<>>]
  /\ listeners = <<>> /\ heard = <<>> /\ escaped = FALSE
  /\ steps = [i \in Ids |-> <<>>] /\ lastReply = None
  /\ forwarderCleanup = TRUE /\ analyzing = 1 /\ executing = {}
  /\ notifying = {} /\ execCalls = [i \in Ids |-> 0] /\ discarded = FALSE
  /\ stdin = <<>>
  /\ fwdPending = <<>> /\ callbacks = TRUE /\ inboundCleanup = FALSE
  /\ fwdSending = {} /\ fwdCalls = <<>>
  /\ fwdEmitted = [i \in Ids |-> <<>>] /\ fwdDelivered = {}
  /\ fwdDeadline = [i \in Ids |-> 0] /\ timeoutAt = [i \in Ids |-> Untimed]
  /\ InitGateway /\ InitExecutor /\ InitAnalyzer
  /\ exCapture = TRUE /\ exPlane = "up" /\ now = Untimed

NextRules == \E res \in RuleAnalyzerResults : AnalyzeDone(res)

SpecRules == InitRules /\ [][NextRules]_vars

(***************************************************************************)
(* Properties                                                              *)
(***************************************************************************)
Created(id) == id <= Len(requests)

\* injections made for request id: its payload writes on the child's stdin
injectionsOf(id) ==
  { i \in 1..Len(stdin) : stdin[i].id = id /\ stdin[i].line # Blank }

\* history entries of request id
entriesOf(id) == { i \in 1..Len(history) : history[i].id = id }

\* request id received an authorization while it was in the Pending map
Received(id, decisions, resolvers) ==
  \E i \in 1..Len(events[id]) :
    /\ events[id][i].type = "authorization-received"
    /\ events[id][i].decision \in decisions
    /\ resolvers # {} => events[id][i].resolvedBy \in resolvers

\* C1: for every request id the orchestrator calls executor.execute at most
\* once, injects at most once and appends at most one history entry, also
\* when executor.execute or forwarder.notifyResult fails
C1_AtMostOnce ==
  \A id \in Ids :
    /\ execCalls[id] <= 1
    /\ Cardinality(injectionsOf(id)) <= 1
    /\ Cardinality(entriesOf(id)) <= 1

\* C2: every request the orchestrator creates is eventually injected into
\* the worker's stdin, recorded in history and out of the Pending map, for
\* every target configuration and even if the operator never replies
\* (stated for the runs in which the Conductor is not stopped)
C2_EveryRequestAnswered ==
  \A id \in Ids :
    Created(id) ~> (\/ ~active
                    \/ /\ injectionsOf(id) # {}
                       /\ entriesOf(id) # {}
                       /\ id \notin pending)

\* the URL matches an auto-approve glob and no auto-deny glob
UrlAutoApproved(url) ==
  /\ url # None
  /\ \E i \in 1..Len(config.autoApprovePatterns) :
       matchGlob(config.autoApprovePatterns[i], url)
  /\ \A j \in 1..Len(config.autoDenyPatterns) :
       ~matchGlob(config.autoDenyPatterns[j], url)

UrlAutoDenied(url) ==
  /\ url # None
  /\ \E j \in 1..Len(config.autoDenyPatterns) :
       matchGlob(config.autoDenyPatterns[j], url)

Approvals == {"approve", "approve-with-instructions"}

\* C3: executor.execute is called for a request only if its URL is
\* auto-approved (an approve glob and no deny glob matches) or an approving
\* authorization was delivered for it while it was pending; a request
\* resolved by deny, by timeout or by auto-deny never reaches the executor
C3_ExecuteOnlyIfApproved ==
  \A id \in Ids :
    /\ execCalls[id] > 0 =>
         /\ Created(id)
         /\ \/ UrlAutoApproved(requests[id].url)
            \/ Received(id, Approvals, {})
    /\ (Created(id) /\ (\/ Received(id, {"deny"}, {})
                        \/ UrlAutoDenied(requests[id].url)))
         => execCalls[id] = 0

C3_Witness ==
  \E id \in Ids :
    /\ execCalls[id] = 1 /\ Received(id, Approvals, {})
    /\ \E other \in Ids : Received(other, {"deny"}, {})

\* C4: a pending request resolved by the forwarder's timer gets the timeout
\* sentence (the injectTimeout message) injected, not the denial sentence
C4_TimeoutSentence ==
  \A id \in Ids :
    Received(id, Decisions, {"timeout"}) =>
      \A i \in injectionsOf(id) : stdin[i].line = timeoutPayload

\* C5: a pending request resolved by timeout has a history entry with
\* decision deny and resolvedBy timeout, and the executor is not called
C5_TimeoutRecorded ==
  \A id \in Ids :
    Received(id, Decisions, {"timeout"}) =>
      /\ \E i \in entriesOf(id) :
           history[i].decision = "deny" /\ history[i].resolvedBy = "timeout"
      /\ execCalls[id] = 0

C5_Witness == \E id \in Ids : Received(id, Decisions, {"timeout"})

\* C6: an authorization delivered for a request id that is not in the
\* Pending map changes neither Pending, History, the audit log nor the
\* child's stdin, and emits no event
C6_UnknownIdIgnored ==
  [][(\E auth \in ExternalAuths :
        auth.requestId \notin pending /\ ExternalAuthorization(auth))
       => UNCHANGED <<pending, history, steps, auditLog, stdin, events, heard, escaped, executing,
                      execCalls>>]_vars

\* an authorization has been dropped for a request that was resolved before
C6_Witness == discarded /\ \E id \in Ids : entriesOf(id) # {}

\* C7: a URL matched by an autoDenyPatterns glob is auto-denied whatever
\* autoApprovePatterns holds; approve is returned only if no deny glob and
\* some approve glob matches; a request without URL is never auto-decided
C7_DenyPrecedence ==
  \A id \in 1..Len(requests) :
    LET url == requests[id].url
        decision == requests[id].autoDecision
        hasUrl == url # None /\ url # <<>>
    IN /\ ~hasUrl => decision = "null"
       /\ (hasUrl /\ UrlAutoDenied(url)) => decision = "deny"
       /\ decision = "approve" <=> (hasUrl /\ UrlAutoApproved(url))
       /\ decision = "deny" <=> (hasUrl /\ UrlAutoDenied(url))

\* a URL matched by both lists was auto-denied
C7_Witness ==
  \E id \in 1..Len(requests) :
    /\ requests[id].autoDecision = "deny"
    /\ \E i \in 1..Len(config.autoApprovePatterns) :
         matchGlob(config.autoApprovePatterns[i], requests[id].url)

\* C8: an auto-denied request has the denial injected and exactly one
\* history entry (deny, resolvedBy auto-deny) as soon as it exists; it is
\* never pending, never passed to requestAuthorization nor to the executor
C8_AutoDenyImmediate ==
  \A id \in 1..Len(requests) :
    requests[id].autoDecision = "deny" =>
      /\ Cardinality(injectionsOf(id)) = 1
      /\ \A i \in injectionsOf(id) :
           stdin[i].line = denialPayload("blocked by auto-deny rule")
      /\ Cardinality(entriesOf(id)) = 1
      /\ \A i \in entriesOf(id) :
           history[i].decision = "deny" /\ history[i].resolvedBy = "auto-deny"
      /\ id \notin pending
      /\ \A k \in 1..Len(fwdCalls) : fwdCalls[k] # id
      /\ execCalls[id] = 0

\* the analyzer result asks for a request: detected, with a request, and
\* confidence at least the threshold
Qualifies(res) ==
  res.detected /\ res.hasRequest /\ res.confidence >= DefaultThreshold

\* C9: a flush creates a request (pending entry, operator message,
\* injection, history entry, audit record) only if the analyzer returns
\* detected with a request and confidence >= threshold; any other result
\* leaves Pending, History and stdin unchanged and the forwarder uncalled
C9_GateOnAnalyzerResult ==
  [][/\ (\E res \in AnalyzerResults : ~Qualifies(res) /\ AnalyzeDone(res))
          => UNCHANGED <<requests, pending, history, steps, stdin, fwdCalls,
                         auditLog, fwdSending, executing>>
     /\ Len(requests') > Len(requests)
          => \E res \in AnalyzerResults : Qualifies(res) /\ AnalyzeDone(res)
    ]_vars

\* an analysis has ended without a request, another one with a request
C9_Witness ==
  /\ Len(flushed) > analyzing + Len(requests)
  /\ Len(requests) > 0

\* C10: with a single pending request, an inbound text that starts (trimmed,
\* lower-cased) with "yes " or "approve " resolves that request as
\* approve-with-instructions, the instructions being the trimmed remainder
C10_PrefixGivesInstructions ==
  \A raw \in InboundTexts :
    LET text == normalize(raw)
        prefix == IF startsWith(text, Str_yes \o Sp) THEN Str_yes \o Sp
                  ELSE Str_approve \o Sp
    IN (inboundCleanup /\ Len(fwdPending) = 1 /\ startsWith(text, prefix))
         => LET id == fwdPending[1]
                auth == inboundAuth(text, id)
            IN /\ firstMatch(text, fwdPending, Len(fwdPending)) = id
               /\ auth.decision = "approve-with-instructions"
               /\ auth.instructions =
                    trim(SubSeq(text, Len(prefix) + 1, Len(text)))


\* the ids held by the forwarder's pending Map
fwdIds(m) == { m[i] : i \in 1..Len(m) }

\* C11: an inbound message resolves at most one pending forwarder request;
\* the resolved request is one whose short id occurs in the text, or the
\* sole pending request when the text is an approval or a denial; with two
\* or more requests pending a text without a short id resolves none and
\* leaves every timer armed
C11_InboundResolvesOne ==
  [][fwdPending' # fwdPending =>
       \A raw \in InboundTexts :
         InboundMessage(raw) =>
           LET text == normalize(raw)
               resolved == fwdIds(fwdPending) \ fwdIds(fwdPending')
           IN /\ Cardinality(resolved) <= 1
              /\ \A id \in resolved :
                   \/ includes(text, shortId(id))
                   \/ /\ Len(fwdPending) = 1
                      /\ isApproval(text) \/ isDenial(text)
              /\ (/\ Len(fwdPending) >= 2
                  /\ \A id \in fwdIds(fwdPending) :
                       ~includes(text, shortId(id)))
                   => resolved = {}
    ]_vars

\* request 2 was approved by an inbound message while request 1 still waits
\* in the forwarder
C11_Witness ==
  /\ fwdPending = <<1>>
  /\ Created(2) /\ requests[2].autoDecision = "null"
  /\ Received(2, {"approve"}, {"telegram:op"})
  /\ 1 \in pending

\* the first resolution of gateway request id has happened: its promise is
\* settled, by an accepted conductor.resolve or by its timeout
GwSettled(id) == gwStage[id] \in {"resumable", "done"}

\* C12: once a conductor.resolve for an id has been accepted, or its
\* timeout has fired, every later conductor.resolve for that id returns the
\* unknown-request-id error and broadcasts no 'conductor.resolved', also
\* when it arrives before the conductor.request handler has resumed
C12_FirstResolutionWins ==
  [][\A p \in ResolveParams :
       (/\ p.id \in GwIds /\ p.decision \in Decisions
        /\ GwSettled(p.id)
        /\ GwResolve(p))
         => /\ gwResponse' = ErrorResponse("conductor.resolve",
                                           "unknown request id")
            /\ gwResolved' = gwResolved
    ]_vars

\* history entries of gateway request id
gwEntriesOf(id) ==
  { i \in 1..Len(conductorHistory) : conductorHistory[i].id = id }

\* the decision of the first accepted conductor.resolve for id; deny when
\* none was accepted, which is the case of the timeout
gwFirstDecision(id) ==
  IF gwResolved[id] # <<>> THEN gwResolved[id][1].decision ELSE "deny"

C13_Answered(id) ==
  /\ Len(gwResponded[id]) <= 1
  /\ Cardinality(gwEntriesOf(id)) <= 1
  /\ gwStage[id] = "done" =>
       /\ Len(gwResponded[id]) = 1
       /\ gwResponded[id][1].decision = gwFirstDecision(id)
       /\ Cardinality(gwEntriesOf(id)) = 1
       /\ \A i \in gwEntriesOf(id) :
            conductorHistory[i].decision = gwFirstDecision(id)
       /\ id \notin conductorPending
  /\ gwStage[id] # "done" =>
       gwResponded[id] = <<>> /\ gwEntriesOf(id) = {}

\* C13: every accepted conductor.request responds exactly once, with the
\* decision of the first accepted conductor.resolve for its id or with deny
\* if its timeout fires first, appends exactly one history entry with that
\* decision, and its id is then out of the conductorPending Map
C13_RequestAnsweredOnce ==
  /\ [](\A id \in GwIds : C13_Answered(id))
  /\ \A id \in GwIds : (gwStage[id] = "awaiting") ~> (gwStage[id] = "done")

\* a request has responded approve after a second conductor.resolve, with
\* deny, was accepted for it
C13_Witness ==
  \E id \in GwIds :
    /\ gwStage[id] = "done"
    /\ gwResolved[id] = <<Result("approve"), Result("deny")>>
    /\ gwResponded[id] = <<Result("approve")>>

\* C14: a conductor.request with neither summary nor url, and a
\* conductor.resolve with a missing id or decision, a decision outside
\* {approve, deny, approve-with-instructions} or an id that is not pending,
\* respond with an error, leave the pending Map and the history unchanged,
\* wake no waiter and broadcast no event
C14_InvalidCallsRejected ==
  [][(\/ \E p \in RequestParams :
           falsy(p.summary) /\ falsy(p.url) /\ GwRequest(p)
      \/ \E p \in ResolveParams :
           /\ \/ p.id = 0 \/ p.decision = ""
              \/ p.decision \notin Decisions
              \/ p.id \notin conductorPending
           /\ GwResolve(p))
       => /\ ~gwResponse'.ok /\ gwResponse'.error # ""
          /\ UNCHANGED <<conductorPending, conductorHistory, gwCreated,
                         gwStage, gwResult, gwTimer, gwResponded, gwResolved>>
    ]_vars

\* a conductor.resolve with an invalid decision was rejected while a
\* request waits, and so was a conductor.request without summary and url
C14_Witness ==
  /\ conductorPending # {}
  /\ \E id \in GwIds : gwStage[id] = "awaiting"
  /\ gwResponse \in {ErrorResponse("conductor.resolve", "invalid decision"),
                     ErrorResponse("conductor.request",
                                   "summary or url required")}

\* C15: conductor.history{limit} returns the last min(limit, total) entries
\* in completion order for every limit >= 0 (none for limit 0), and the
\* last DefaultLimit when the limit is omitted
C15_HistoryLimit ==
  gwResponse.method = "conductor.history" =>
    LET total == gwResponse.total
        n == IF gwResponse.limit < total THEN gwResponse.limit ELSE total
    IN gwResponse.entries = SubSeq(conductorHistory, total - n + 1, total)

\* C16: a request the orchestrator holds in its Pending map is listed by
\* conductor.status, and conductor.resolve with its id is accepted and
\* removes it from Pending as an operator decision over messaging does
C16_SharedPendingSet ==
  [][/\ GwStatus => pending \subseteq gwResponse'.pending
     /\ \A id \in pending : \A d \in Decisions :
          GwResolve([id |-> id, decision |-> d, instructions |-> None])
            => gwResponse'.ok /\ id \notin pending'
    ]_vars

\* the concatenation of the payloads in a sequence of flushes
RECURSIVE concatAll(_)
concatAll(payloads) ==
  IF payloads = <<>> THEN <<>>
  ELSE Head(payloads) \o concatAll(Tail(payloads))

\* C17: the flush payloads emitted so far, followed by the buffer, are the
\* chunks received from the child in arrival order, none lost, duplicated
\* or reordered; at child exit the buffer is empty, so the payloads alone
\* are all the chunks; and no flush has an empty payload
C17_LosslessFlushes ==
  /\ [](/\ concatAll(flushed) \o buffer = [i \in 1..chunksSent |-> i]
        /\ \A i \in 1..Len(flushed) : flushed[i] # <<>>)
  /\ [][childProc = "alive" /\ childProc' = "exited" =>
         concatAll(flushed') = [i \in 1..chunksSent' |-> i]]_vars

\* the child has exited after a flush by the timer and the flush at exit
C17_Witness ==
  /\ childProc = "exited" /\ chunksSent = MaxChunks
  /\ Len(flushed) >= 2 /\ buffer = <<>>

\* executor.execute has settled for request id: the orchestrator has tried
\* to inject its results, or a denial from the catch block
InjectionAttempted(id) ==
  execCalls[id] > 0 /\ \A e \in executing : e.auth.requestId # id

\* C18: when the child's stdin is not writable at the time the orchestrator
\* injects, the failure is contained: the request is still recorded in
\* history, as failed, and an error event is emitted
C18_InjectFailureContained ==
  \A id \in Ids :
    (InjectionAttempted(id) /\ injectionsOf(id) = {}) =>
      /\ \E i \in entriesOf(id) : ~history[i].success
      /\ \E i \in 1..Len(events[id]) : events[id][i].type = "error"

\* writes s is a sequence of whole injections (blank line, payload, blank
\* line of one request) and operator chunks
RECURSIVE wholeInjections(_)
wholeInjections(s) ==
  \/ s = <<>>
  \/ s # <<>> /\ Head(s) = HostChunk /\ wholeInjections(Tail(s))
  \/ /\ Len(s) >= 3
     /\ s[1].line = Blank /\ s[3].line = Blank
     /\ s[2].line \notin {Blank, HostChunk.line}
     /\ s[1].id \in Ids /\ s[2].id = s[1].id /\ s[3].id = s[1].id
     /\ wholeInjections(SubSeq(s, 4, Len(s)))

\* C19: every injection is three writes to the child's stdin, blank line,
\* payload, blank line, contiguous in the write sequence: no write of
\* another injection and no forwarded operator chunk lies between them
C19_InjectionsContiguous == wholeInjections(stdin)

\* the operator typed between the injections of two requests
C19_Witness ==
  /\ Len(stdin) = 7
  /\ stdin[4] = HostChunk
  /\ stdin[1].id # stdin[7].id

\* C20: within one execute call, once a navigate action returns a failed
\* result no further browser action is dispatched, the trailing
\* auto-screenshot included; a failure of any other action yields a failed
\* result and the remaining actions are still dispatched
C20_FailedNavigateStops ==
  /\ \A i \in 1..Len(exResults) :
       (/\ exResults[i].action.type = "navigate"
        /\ exResults[i].error = "failed")
         => Len(exDispatched) <= i
  /\ (/\ exStage = "done"
      /\ \A i \in 1..Len(exResults) :
           ~(exResults[i].action.type = "navigate" /\ ~exResults[i].success))
       => /\ Len(exDispatched) >= Len(exActions)
          /\ SubSeq(exDispatched, 1, Len(exActions)) = exActions
          /\ \A i \in 1..Len(exActions) : exResults[i].action = exActions[i]
(***************************************************************************)
(* C21                                                                     *)
(***************************************************************************)
\* the list of actions as the specification composes it from a request and
\* the instructions of its authorization
C21_List(request, instructions) ==
  LET base == IF request.suggestedActions # <<>> THEN request.suggestedActions
              ELSE IF request.url # None
                   THEN <<Action("navigate", request.url), ExtractText>>
                   ELSE <<>>
      text == IF instructions = None THEN <<>>
              ELSE toLowerCase(instructions)
  IN IF \/ includes(text, Str_only \o <<" ">> \o Str_screenshot)
        \/ includes(text, Str_just \o <<" ">> \o Str_screenshot)
     THEN findNavigate(base) \o <<Screenshot>>
     ELSE IF \/ includes(text, Str_only \o <<" ">> \o Str_fetch)
             \/ includes(text, Str_just \o <<" ">> \o Str_fetch)
          THEN findNavigate(base) \o <<ExtractText>>
     ELSE base

\* the list followed by the trailing screenshot
C21_Composition(request, instructions, capture) ==
  LET list == C21_List(request, instructions)
  IN IF capture /\ \A i \in 1..Len(list) : list[i].type # "screenshot"
     THEN Append(list, Screenshot)
     ELSE list

\* the execute call has returned and every dispatched action succeeded
C21_AllSucceeded ==
  /\ exStage = "done" /\ exCall # <<>>
  /\ Len(exResults) = Len(exDispatched)
  /\ \A i \in 1..Len(exResults) : exResults[i].success

\* C21: when no action fails, the actions the executor dispatched are the
\* specification's composition for the request and authorization it was
\* called with, the trailing screenshot of an empty list included
C21_DispatchIsComposition ==
  C21_AllSucceeded =>
    exDispatched = C21_Composition(exCall[1], exCall[2], exCapture)


(***************************************************************************)
(* C22                                                                     *)
(***************************************************************************)
\* C22: every browser action the executor has dispatched completes with a
\* result, whether or not the browser plane answers, so that execute
\* always returns
C22_ExecuteTerminates ==
  (exStage \in {"action", "autoshot"}) ~> (exStage = "done")

(***************************************************************************)
(* C23                                                                     *)
(***************************************************************************)
\* the rule-based analyzer returned a match for the analyze call
C23_RuleMatch ==
  anStage = "done" /\ anAnalyzer = "regex" /\ anResult.detected

\* the actions the claim lists after the navigate, per kind
C23_Following(kind) ==
  CASE kind \in {"url-visit", "verification"} -> <<Screenshot, ExtractText>>
    [] kind \in {"credential-fetch", "api-check"} -> <<ExtractText>>
    [] kind = "file-download" -> <<>>
    [] kind \in {"service-action", "unknown"} -> <<Screenshot>>

\* C23: for every match of the rule-based analyzer, suggestedActions is
\* absent when no URL was extracted, and otherwise is navigate(url)
\* followed by the actions of the request's kind
C23_SuggestedActionsByKind ==
  C23_RuleMatch =>
    LET request == anResult.request
    IN IF request.url = None
       THEN request.suggestedActions = NoActions
       ELSE request.suggestedActions =
              <<Action("navigate", request.url)>> \o C23_Following(request.kind)

\* a verification match with a URL: navigate, screenshot, extract-text
C23_Witness ==
  /\ C23_RuleMatch
  /\ anResult.request.kind = "verification"
  /\ anResult.request.url = Group_url
  /\ Len(anResult.request.suggestedActions) = 3

(***************************************************************************)
(* C24                                                                     *)
(***************************************************************************)
\* C24: stripping the control sequences of a cleaned text changes nothing
C24_StripIdempotent ==
  anStage = "done" => stripAnsi(anCleaned) = anCleaned

(***************************************************************************)
(* C25                                                                     *)
(***************************************************************************)
\* the analyze call runs on a remote analyzer
C25_Remote == anAnalyzer \in {"gemini", "openai"}

\* the replies after which the claim has analyze fall back
C25_Failures ==
  {reply \in RemoteReplies :
     reply.status \in {"threw", "non2xx", "jsonRejects", "badJson"}}

\* C25: a remote analyzer answers a text of fewer than 20 visible
\* characters with detected=false without calling fetch; after a thrown
\* error, a non-2xx response or a JSON failure its result is the rule-based
\* analyzer's result for the same input; analyze never rejects; and without
\* an API key createAnalyzer returns the rule-based analyzer
C25_RemoteFallback ==
  /\ [](/\ (anStage = "done" /\ C25_Remote
             /\ Len(trim(anCleaned)) < MinVisible)
            => (~anFetched /\ anResult = NotDetected(0))
        /\ anStage # "rejected"
        /\ (anStage = "ready" /\ ~anConfig.apiKey) => anAnalyzer = "regex")
  /\ [][(\E reply \in C25_Failures : FetchSettles(reply))
          => /\ anStage' = "done"
             /\ anResult' = regexAnalyze(anConfig, anInput)]_vars

(***************************************************************************)
(* C26                                                                     *)
(***************************************************************************)
\* C26: the timeout authorization of a request is made timeoutMs after
\* the request was created, however long the sends took (the clock of the
\* model waits for due timers, so the jitter is zero)
C26_TimeoutAtExpiry ==
  \A id \in Ids :
    (Created(id) /\ timeoutAt[id] # Untimed)
      => timeoutAt[id] - requests[id].createdAtMs = TimeoutTicks

(***************************************************************************)
(* C27                                                                     *)
(***************************************************************************)
\* the resolvers that stand for the operator
C27_Operator(resolvedBy) == resolvedBy # "timeout"

\* C27: the subscribers get at most one authorization per request, the
\* operator's or the timeout's; and a request in the forwarder's pending
\* set gets one unless the Conductor is stopped
C27_OneAuthorization ==
  /\ [](\A id \in Ids : Len(fwdEmitted[id]) <= 1)
  /\ \A id \in Ids :
       mapHas(fwdPending, id) ~> (Len(fwdEmitted[id]) = 1 \/ ~active)

\* one request was answered by the operator and the other by its timer,
\* both have left the pending set
C27_Witness ==
  /\ \E id \in Ids : fwdEmitted[id] = <<"timeout">>
  /\ \E id \in Ids : Len(fwdEmitted[id]) = 1
                     /\ C27_Operator(fwdEmitted[id][1])
  /\ fwdPending = <<>> /\ active

(***************************************************************************)
(* C28                                                                     *)
(***************************************************************************)
\* requestAuthorization was called for id and its promise has settled
C28_Settled(calls, sending, id) ==
  (\E k \in 1..Len(calls) : calls[k] = id) /\ id \notin sending

\* C28: when requestAuthorization(r) settles, r is in the forwarder's
\* pending set (whose entries carry their armed timer), whatever the
\* targets are
C28_SettledMeansPending ==
  [][\A id \in Ids :
       (~C28_Settled(fwdCalls, fwdSending, id)
        /\ C28_Settled(fwdCalls', fwdSending', id))
         => mapHas(fwdPending', id)]_vars

(***************************************************************************)
(* C29                                                                     *)
(***************************************************************************)
\* Conductor.stop() has run (start() had run before it)
C29_Stopped == ~active /\ childProc # "unspawned"

\* C29: once Conductor.stop() has run the forwarder's pending set is and
\* stays empty (no timer is armed), no subscribed callback is called and
\* no authorization prompt is sent
C29_QuietAfterStop ==
  /\ [](C29_Stopped => fwdPending = <<>>)
  /\ [][C29_Stopped => /\ fwdEmitted' = fwdEmitted
                       /\ fwdSending' \subseteq fwdSending]_vars


\* the step in which the child's 'exit' handler runs
C30_ExitStep == childProc = "alive" /\ childProc' = "exited"

\* the exit handler flushes what is buffered before it emits 'exit'
C30_FlushPrecedesExit ==
  C30_ExitStep =>
    /\ buffer' = <<>>
    /\ flushed' = IF buffer # <<>> THEN Append(flushed, buffer) ELSE flushed
    /\ buffer # <<>> =>
         SubSeq(events'[0], Len(events[0]) + 1, Len(events[0]) + 2)
           = <<Event("output", 0, ""), Event("stopped", 0, "")>>

\* C30: when the child exits, whatever is buffered is flushed, and this
\* flush is emitted before the 'exit' event; after the 'exit' event no
\* flush is emitted
C30_NoFlushAfterExit ==
  /\ [][C30_FlushPrecedesExit]_vars
  /\ [][childProc = "exited" => flushed' = flushed]_vars

\* decision approve-with-instructions goes with instructions, and only it
C31_Consistent(decision, instructions) ==
  (decision = "approve-with-instructions") <=> ~falsy(instructions)

\* the authorizations the orchestrator has resolved requests with
C31_Orchestrator ==
  \A i \in 1..Len(history) :
    C31_Consistent(history[i].decision, history[i].instructions)

\* C31: every authorization that resolves a request, from the forwarder's
\* inbound handler, from its timer, from the auto rules or accepted by
\* conductor.resolve, has decision approve-with-instructions iff its
\* instructions are non-empty
C31_InstructionsIffDecision ==
  /\ C31_Orchestrator
  /\ \A id \in GwIds : \A i \in 1..Len(gwResolved[id]) :
       C31_Consistent(gwResolved[id][i].decision,
                      gwResolved[id][i].instructions)

(***************************************************************************)
(* C32                                                                     *)
(***************************************************************************)
\* the order of the kinds the claim gives
C32_KindOrder ==
  <<"url-visit", "credential-fetch", "api-check", "service-action",
    "file-download", "verification", "unknown">>

C32_Rank(kind) == CHOOSE r \in 1..Len(C32_KindOrder) : C32_KindOrder[r] = kind

\* the patterns of the analyzer whose exec matched the cleaned text
C32_Hits ==
  { p \in 1..Len(allPatternKinds(anConfig)) : anInput.matches[p] # NoMatch }

C33_Emitted(id) == SubSeq(events'[id], Len(events[id]) + 1, Len(events'[id]))

\* C33: a listener that throws changes nothing: no exception of a listener
\* leaves emit(), so the handlers of the orchestrator run on as they do
\* with a listener that returns, and every subscribed listener, whatever
\* the behaviour of the ones before it, is called with every event
C33_ThrowingListenerHarmless ==
  /\ [](~escaped)
  /\ [][\A l \in 1..Len(listeners) : \A id \in {0} \cup Ids :
          heard'[l][id] = heard[l][id] \o C33_Emitted(id)]_vars

\* a listener that throws was subscribed before one that returns, and a
\* request has been resolved and recorded since
C33_Witness ==
  /\ listeners = <<"throws", "returns">>
  /\ history # <<>>
  /\ \E id \in Ids : heard[2][id] # <<>> /\ heard[2][id] = heard[1][id]

(***************************************************************************)
(* C34                                                                     *)
(***************************************************************************)
\* nothing has been done for request id: no history entry, no injection,
\* no call of executor.execute
C34_Untouched(id) ==
  /\ entriesOf(id) = {} /\ injectionsOf(id) = {}
  /\ execCalls[id] = 0 /\ \A e \in executing : e.auth.requestId # id

\* C34: a request in the Pending map has no history entry, no injection
\* and no execution started, so it leaves the map before any of these
\* begins; a request decided by the auto rules is never in the map
C34_PendingUntouched ==
  /\ \A id \in pending : C34_Untouched(id)
  /\ \A id \in Ids :
       (Created(id) /\ requests[id].autoDecision \in {"approve", "deny"})
         => id \notin pending

\* one request waits in the Pending map while another, approved by the
\* operator, is being executed
C34_Witness ==
  \E id \in pending : \E e \in executing :
    /\ e.auth.requestId # id /\ e.origin = "handleAuthorization"
    /\ C34_Untouched(id)

(***************************************************************************)
(* C35                                                                     *)
(***************************************************************************)
\* the stages of a request, in the order the claim gives
C35_Stages ==
  <<"pending-insert", "resolve", "execute", "inject", "history", "audit">>

C35_Rank(name) == CHOOSE r \in 1..Len(C35_Stages) : C35_Stages[r] = name

\* no step of a later stage precedes a step of an earlier stage
C35_InOrder(done) ==
  \A i, j \in 1..Len(done) :
    (/\ i < j
     /\ \E r \in 1..Len(C35_Stages) : C35_Stages[r] = done[i]
     /\ \E r \in 1..Len(C35_Stages) : C35_Stages[r] = done[j])
      => C35_Rank(done[i]) <= C35_Rank(done[j])

\* C35: for each request the operator approved, the steps taken for it
\* are in the order pending-insert, resolve, execute, inject, history
\* append, audit append of the injection
C35_StagesInOrder ==
  \A id \in Ids :
    Received(id, {"approve", "approve-with-instructions"}, {})
      => C35_InOrder(steps[id])

(***************************************************************************)
(* C36                                                                     *)
(***************************************************************************)
\* request id is the one request the operator was asked about and has not
\* answered
C36_Asked(id) == fwdPending = <<id>> /\ id \in pending /\ active

\* C36: in the wiring of the CLI, the operator's reply 'yes' to the prompt
\* of the one pending request resolves it as approved and its execution
\* starts
C36_YesApproves ==
  [][\A id \in Ids :
       (C36_Asked(id) /\ OperatorReply(Str_yes))
         => /\ id \notin pending'
            /\ \E e \in executing' :
                 /\ e.auth.requestId = id /\ e.auth.decision = "approve"
                 /\ e.origin = "handleAuthorization"]_vars

(***************************************************************************)
(* C37                                                                     *)
(***************************************************************************)
\* the first word of a text: what precedes its first whitespace
RECURSIVE C37_FirstWord(_)
C37_FirstWord(text) ==
  IF text = <<>> \/ Head(text) \in Whitespace THEN <<>>
  ELSE <<Head(text)>> \o C37_FirstWord(Tail(text))

C37_DenialFirst(text) == C37_FirstWord(text) \in {Str_no, Str_deny, Str_n}

\* the step resolves request id with an approval
C37_Approved(id) ==
  \E i \in (Len(events[id]) + 1)..Len(events'[id]) :
    /\ events'[id][i].type = "authorization-received"
    /\ events'[id][i].decision \in {"approve", "approve-with-instructions"}

\* C37: an inbound message whose first word is no, deny or n never
\* resolves a request as approved, also when it carries the short id of
\* the request
C37_DenialNeverApproves ==
  [][\A raw \in InboundTexts :
       (C37_DenialFirst(normalize(raw)) /\ InboundMessage(raw))
         => \A id \in Ids : ~C37_Approved(id)]_vars
(***************************************************************************)
(* C38                                                                     *)
(***************************************************************************)
\* the prompt of request id, the one request awaiting a decision, is before
\* the operator
C38_Prompted(id) ==
  /\ id \in fwdDelivered /\ pending = {id} /\ active
  /\ \A other \in Ids : other # id => ~mapHas(fwdPending, other)

\* the prompt of request id is before the operator and the request is in the
\* forwarder's pending Map
C38_Registered(id) == C38_Prompted(id) /\ mapHas(fwdPending, id)

\* C38: a reply 'yes' that the operator sends once the prompt of the one
\* request awaiting a decision has been delivered resolves that request as
\* approved, whether or not the sends to the other targets have settled
C38_ReplyNeverLost ==
  [][\A id \in Ids :
       (C38_Prompted(id) /\ OperatorReply(Str_yes))
         => /\ id \notin pending'
            /\ \E e \in executing' :
                 /\ e.auth.requestId = id /\ e.auth.decision = "approve"]_vars

\* the same once the request is in the forwarder's pending Map
C38_RegisteredReplyKept ==
  [][\A id \in Ids :
       (C38_Registered(id) /\ OperatorReply(Str_yes))
         => /\ id \notin pending'
            /\ \E e \in executing' :
                 /\ e.auth.requestId = id /\ e.auth.decision = "approve"]_vars


(***************************************************************************)
(* C39                                                                     *)
(***************************************************************************)
\* C39: every request id in the forwarder's pending Map is in the
\* orchestrator's state.pending, and no authorization the forwarder passes
\* to the Conductor's callback is dropped by handleAuthorization as unknown
C39_ForwarderPendingKnown ==
  /\ \A i \in 1..Len(fwdPending) : fwdPending[i] \in pending
  /\ ~discarded

\* the forwarder has resolved a request with the operator's reply, which
\* handleAuthorization found in state.pending, while another request is in
\* the forwarder's pending Map
C39_Witness ==
  /\ \E id \in Ids : /\ fwdEmitted[id] = <<"telegram:op">>
                       /\ id \notin pending
                       /\ \E i \in 1..Len(events[id]) :
                            events[id][i].type = "authorization-received"
  /\ \E id \in Ids : mapHas(fwdPending, id) /\ id \in pending

====
